---------------------------- MODULE Spec2Model ----------------------------
(*
  A model of landlab's VoronoiDelaunayGrid (src/landlab/grid/voronoi.py), of
  RadialModelGrid (radial.py) and of the grid operators of grid_funcs.py and
  mappers.py.

  The grid is built in phases, each phase a function of voronoi.py whose
  inputs are either the caller's arrays or the output of the geometry back
  end (scipy.spatial).  Each phase has its own specification; the back end's
  output is an input drawn from a bounded set:

    SpecCtor      _initialize: size check, point sort, node coordinates
    SpecLinks     create_links_and_faces_from_voronoi_diagram
    SpecReorient  reorient_links_upper_right
    SpecCells     setup_node_cell_connectivity
    SpecPatches   patches_at_node / number_of_patches / nodes_at_patch /
                  create_patches_from_delaunay_diagram
    SpecPatchStatus  patches_at_node between changes of node status
    SpecLatticePatches  the patch queries on lattices (co-circular points)
    SpecLengths   _initialize: link sort, reorientation, link lengths
    SpecPoints    _initialize: the points of the grid and of its diagrams,
                  and the assertion of a patch build
    SpecRadial    RadialModelGrid (radial.py): the points of a radial grid

  The operators of grid_funcs.py and mappers.py work on the tables of a
  finished grid; they are called on rectangular lattices:

    SpecOperators calculate_flux_divergence_at_nodes and the mapping
                  functions of mappers.py

  Sequences are 1-based here and 0-based in the source: node, link, cell
  and patch ids are kept 0-based as VALUES, and an array a of the source is
  the sequence with a[i] stored at position i + 1.
*)
EXTENDS Integers, Sequences, FiniteSets, TLC

VARIABLES
    \* ---- construction (SpecCtor)
    ctor_pc,        \* "new" | "constructed" | "error"
    in_x, in_y,     \* the x and y arguments of the constructor
    attrs,          \* names of the grid attributes assigned so far
    pts,            \* self.pts : sequence of <<x, y>>
    node_x, node_y, \* self._node_x, self._node_y
    \* ---- links and faces (SpecLinks)
    link_pc,        \* "vor" | "emitted" | "sorted"
    vor,            \* the Voronoi diagram handed in
    link_fromnode, link_tonode, active_links, face_width,
    \* ---- link orientation (SpecReorient)
    reo_pc,         \* number of reorient_links_upper_right calls made
    node_at_link_tail, node_at_link_head,
    prev_tail, prev_head,   \* the tail/head arrays before the latest call
    \* ---- node / cell connectivity (SpecCells)
    cell_pc,        \* "call" | "loop" | "done" | "assert_failed"
    node_status,    \* boundary status code of each node
    ncells,         \* the ncells argument
    cell, node,     \* the loop's cell counter and node index
    node_cell, cell_node,
    \* ---- patches (SpecPatches)
    tri_simplices,  \* Delaunay(pts).simplices : the node triple of each patch
    vor_regions,    \* vor.regions : the vertex list of each Voronoi region
    nan_fill_raises,\* whether this build's ndarray.fill(nan) on an int array raises
    self_patches_at_node,   \* self._patches_at_node (when "_patches_at_node" \in attrs)
    self_nodes_at_patch,    \* self._nodes_at_patch
    self_number_of_patches, \* self._number_of_patches
    call, ret,      \* the latest call and the table it returned
    prev_call, prev_ret,    \* the call before it and the table that one returned
    \* ---- operators on a grid (SpecOperators)
    grid,           \* the tables of the grid the operator is called on
    active_link_flux,       \* the flux array passed to calculate_flux_divergence_at_nodes
    var_name,       \* the value array passed to a one-field mapper
    control_name, value_name,   \* the arrays passed to a two-field mapper
    out,            \* the caller's out argument and what it holds
    last_op,        \* the latest operator call: its arguments before, its outcome
    \* ---- link lengths (SpecLengths)
    len_pc,         \* "links" | "sorted" | "reoriented" | "measured"
    reorient_links, \* the reorient_links argument of _initialize
    link_length,    \* self._link_length
    \* ---- radial grids and the points of the diagrams (SpecRadial, SpecPoints)
    radial_args,    \* the arguments of RadialModelGrid(...)
    vor_points,     \* self.vor.points
    tri_assert      \* "none" | "vor" | "holds" | "fails": the assertion of a patch build

ctorVars == <<ctor_pc, in_x, in_y, pts>>
attrVars == <<attrs>>
nodeVars == <<node_x, node_y>>
linkVars == <<link_pc, vor, link_fromnode, link_tonode, active_links, face_width>>
reoVars  == <<reo_pc, node_at_link_tail, node_at_link_head, prev_tail, prev_head>>

cellVars == <<cell_pc, ncells, cell, node, node_cell, cell_node>>
statusVars == <<node_status>>

meshVars == <<tri_simplices, vor_regions, nan_fill_raises>>
patchVars == <<self_patches_at_node, self_nodes_at_patch, self_number_of_patches,
               call, ret, prev_call, prev_ret>>

opVars == <<grid, active_link_flux, var_name, control_name, value_name, out, last_op>>

lenVars == <<len_pc, reorient_links, link_length>>

geomVars == <<radial_args, vor_points, tri_assert>>

vars == <<ctorVars, attrVars, nodeVars, linkVars, reoVars, cellVars, statusVars,
          meshVars, patchVars, opVars, lenVars, geomVars>>

-----------------------------------------------------------------------------
(* Each specification exercises one phase; the variables of the other
   phases are parked in these states and never change. *)

CtorDone ==
    /\ ctor_pc = "off"
    /\ in_x = <<>>
    /\ in_y = <<>>
    /\ pts = <<>>

CtorOffNoNodes ==
    /\ CtorDone
    /\ attrs = {}

CtorOff ==
    /\ CtorOffNoNodes
    /\ node_x = <<>>
    /\ node_y = <<>>

LinksOff ==
    /\ link_pc = "off"
    /\ vor = <<>>
    /\ link_fromnode = <<>>
    /\ link_tonode = <<>>
    /\ active_links = <<>>
    /\ face_width = <<>>

ReoOff ==
    /\ reo_pc = 0
    /\ node_at_link_tail = <<>>
    /\ node_at_link_head = <<>>
    /\ prev_tail = <<>>
    /\ prev_head = <<>>

CellsOffNoStatus ==
    /\ cell_pc = "off"
    /\ ncells = 0
    /\ cell = 0
    /\ node = 0
    /\ node_cell = <<>>
    /\ cell_node = <<>>

CellsOff ==
    /\ CellsOffNoStatus
    /\ node_status = <<>>

NoCall == [op |-> "none", nodata |-> "none", outcome |-> "none", built |-> FALSE,
           before |-> <<>>, before_nodata |-> "none", cache_nodata |-> "none"]

PatchesOff ==
    /\ tri_simplices = <<>>
    /\ vor_regions = <<>>
    /\ nan_fill_raises = FALSE
    /\ self_patches_at_node = <<>>
    /\ self_nodes_at_patch = <<>>
    /\ self_number_of_patches = 0
    /\ call = NoCall
    /\ ret = <<>>
    /\ prev_call = NoCall
    /\ prev_ret = <<>>

NoOp == [name |-> "none", outcome |-> "none", value |-> <<>>, is_out |-> FALSE,
         before |-> <<>>]

NoRadial == [num_shells |-> 0, dr |-> 0, origin_x |-> 0, origin_y |-> 0]

GeomOff ==
    /\ radial_args = NoRadial
    /\ vor_points = <<>>
    /\ tri_assert = "none"

LenOff ==
    /\ len_pc = "off"
    /\ reorient_links = FALSE
    /\ link_length = <<>>

OpsOff ==
    /\ grid = <<>>
    /\ active_link_flux = <<>>
    /\ var_name = <<>>
    /\ control_name = <<>>
    /\ value_name = <<>>
    /\ out = [given |-> FALSE, a |-> <<>>]
    /\ last_op = NoOp

-----------------------------------------------------------------------------
(* Bounds of the model *)

\* largest number of points handed to the constructor
MaxN == 3
\* input coordinates are drawn from 0..MaxCoord
MaxCoord == 1

-----------------------------------------------------------------------------
(* Generic helpers *)

Range(s) == {s[i] : i \in DOMAIN s}

SeqsUpTo(S, n) == UNION {[1..k -> S] : k \in 0..n}

\* numpy fancy indexing a[idx], idx holding 0-based indices
Take(a, idx) == [k \in DOMAIN idx |-> a[idx[k] + 1]]

-----------------------------------------------------------------------------
(* landlab.core.utils: argsort_points_by_x_then_y, sort_points_by_x_then_y.
   Two stable (mergesort) passes: first by column 0, then by column 1, so
   the result is ordered by column 1, ties by column 0, remaining ties by
   original position.  The doctests of voronoi.py fix this order. *)

\* insert 0-based index i into the index list s, after every entry whose
\* key is <= key of i (stable)
RECURSIVE InsertByKey(_, _, _)
InsertByKey(s, i, key) ==
    IF s = <<>> THEN <<i>>
    ELSE IF key[Head(s) + 1] <= key[i + 1]
         THEN <<Head(s)>> \o InsertByKey(Tail(s), i, key)
         ELSE <<i>> \o s

\* key.argsort(kind='mergesort') : 0-based indices, stable
RECURSIVE ArgsortPrefix(_, _)
ArgsortPrefix(key, n) ==
    IF n = 0 THEN <<>>
    ELSE InsertByKey(ArgsortPrefix(key, n - 1), n - 1, key)

StableArgsort(key) == ArgsortPrefix(key, Len(key))

Column(p, c) == [k \in DOMAIN p |-> p[k][c]]

ArgsortPointsByXThenY(p) ==
    LET a == StableArgsort(Column(p, 1))
        b == StableArgsort(Take(Column(p, 2), a))
    IN  Take(a, b)

\* sorts the array it is given in place and returns it
SortPointsByXThenY(p) == Take(p, ArgsortPointsByXThenY(p))

-----------------------------------------------------------------------------
(* VoronoiDelaunayGrid.__init__ / _initialize, lines 144-214 *)

Coords == 0..MaxCoord

\* pts = zeros((len(x), 2)); pts[:, 0] = x; pts[:, 1] = y
MakePts(x, y) == [k \in DOMAIN x |-> <<x[k], y[k]>>]

\* A build in which sort_points_by_x_then_y returned a sorted copy would
\* leave the local pts, and so node_x / node_y, in input order.
NodeCoordsUnsorted(raw, sorted) == raw

\* A build in which x and y were read before the sort took effect.
NodeCoordsAsGiven(raw, sorted) == raw

\* self.pts = sort_points_by_x_then_y(pts); x = pts[:,0]; y = pts[:,1]
\* The sort is in place: pts and self.pts are the same sorted array.
NodeCoords(raw, sorted) == sorted

CtorInit ==
    /\ ctor_pc = "new"
    /\ in_x \in SeqsUpTo(Coords, MaxN)
    /\ in_y \in SeqsUpTo(Coords, MaxN)
    /\ attrs = {}
    /\ pts = <<>>
    /\ node_x = <<>>
    /\ node_y = <<>>

\* a size check that only notices a longer x
SizeMismatchOneSided(x, y) == Len(x) > Len(y)

\* x.size != y.size (line 185)
SizeMismatch(x, y) == Len(x) # Len(y)

\* raise ValueError('x and y arrays must have the same size') (line 186)
InitializeSizeError ==
    /\ ctor_pc = "new"
    /\ SizeMismatch(in_x, in_y)
    /\ ctor_pc' = "error"
    /\ UNCHANGED <<in_x, in_y, attrs, pts, node_x, node_y>>

\* lines 188-214
InitializeNodes ==
    /\ ctor_pc = "new"
    /\ ~SizeMismatch(in_x, in_y)
    /\ LET raw    == MakePts(in_x, in_y)
           sorted == SortPointsByXThenY(raw)
           p      == NodeCoords(raw, sorted)
       IN  /\ pts' = sorted
           /\ node_x' = Column(p, 1)
           /\ node_y' = Column(p, 2)
    /\ attrs' = {"pts", "_node_x", "_node_y"}
    /\ ctor_pc' = "constructed"
    /\ UNCHANGED <<in_x, in_y>>

InitCtor == CtorInit /\ LinksOff /\ ReoOff /\ CellsOff /\ PatchesOff /\ OpsOff /\ LenOff /\ GeomOff

NextCtor ==
    \/ InitializeSizeError /\ UNCHANGED <<opVars, lenVars, geomVars, linkVars, reoVars, cellVars, statusVars, meshVars, patchVars>>
    \/ InitializeNodes /\ UNCHANGED <<opVars, lenVars, geomVars, linkVars, reoVars, cellVars, statusVars, meshVars, patchVars>>

SpecCtor == InitCtor /\ [][NextCtor]_vars

-----------------------------------------------------------------------------
(* Claims about construction *)

\* C1 (as stated): node ids follow the points ordered by ascending x, ties
\* broken by ascending y.
C1_AsStated ==
    ctor_pc = "constructed" =>
        \A i, j \in DOMAIN node_x :
            i < j => \/ node_x[i] < node_x[j]
                     \/ node_x[i] = node_x[j] /\ node_y[i] <= node_y[j]

\* C1 (amended): after construction node ids follow the points ordered by
\* ascending y, ties broken by ascending x, and the nodes are a rearrangement
\* of the input points.
C1_SortedByYThenX ==
    ctor_pc = "constructed" =>
        /\ Len(node_x) = Len(in_x) /\ Len(node_y) = Len(in_x)
        /\ \A i, j \in DOMAIN node_x :
            i < j => \/ node_y[i] < node_y[j]
                     \/ node_y[i] = node_y[j] /\ node_x[i] <= node_x[j]
        /\ \A q \in Coords \X Coords :
            Cardinality({k \in DOMAIN node_x : <<node_x[k], node_y[k]>> = q})
              = Cardinality({k \in DOMAIN in_x : <<in_x[k], in_y[k]>> = q})

C1_Witness ==
    /\ ctor_pc = "constructed"
    /\ Len(in_x) = MaxN
    /\ <<node_x, node_y>> # <<in_x, in_y>>
    /\ \E i, j \in DOMAIN node_x : i < j /\ node_x[i] > node_x[j]

\* C2: a constructor call with x and y of different sizes ends in an error,
\* and it has set no grid attribute; no grid is constructed from such input.
C2_MismatchFailsClean ==
    /\ ctor_pc = "error" => attrs = {} /\ pts = <<>> /\ node_x = <<>> /\ node_y = <<>>
    /\ Len(in_x) # Len(in_y) => ctor_pc # "constructed" /\ attrs = {}
    /\ (Len(in_x) # Len(in_y) /\ ctor_pc = "new") => ENABLED InitializeSizeError

C2_Witness ==
    /\ ctor_pc = "error"
    /\ Len(in_x) # Len(in_y)
    /\ Len(in_x) > 0 /\ Len(in_y) > 0

-----------------------------------------------------------------------------
(* create_links_and_faces_from_voronoi_diagram, lines 491-590.
   The Voronoi diagram is the back end's output: vor.points (the sorted
   nodes), vor.ridge_points (the two generator points of each ridge),
   vor.ridge_vertices (the two Voronoi vertices of each ridge, -1 for a
   vertex at infinity) and vor.vertices (their coordinates). *)

\* largest number of ridges in the diagram
MaxRidges == 3

SUSPICIOUSLY_BIG == 40000000

\* The four corners of the unit square, in node (sorted) order.
VorPoints == << <<0, 0>>, <<1, 0>>, <<0, 1>>, <<1, 1>> >>

\* The four sides of the square (the ridges of four co-circular points), each
\* in the orientation the back end happens to report it.
RidgePointPool == { <<0, 1>>, <<2, 0>>, <<3, 1>>, <<2, 3>> }

\* Voronoi vertices 0..4.  Vertices 0, 1, 4 lie just inside the bound
\* (39999999 is the largest integer coordinate accepted), vertex 2 has a
\* coordinate exactly at the bound and vertex 3 one at minus the bound.
VorVertices == << <<39999996, 39999995>>, <<39999999, 39999999>>,
                  <<40000000, 39999998>>, <<39999996, -40000000>>,
                  <<39999999, 39999995>> >>

\* vertex pairs a ridge can have: bounded and in range, one vertex at
\* infinity (either position), bounded with a vertex out of range
RidgeVertexPool == { <<0, 1>>, <<4, 1>>, <<-1, 0>>, <<1, -1>>, <<0, 2>>, <<3, 1>> }

InjectiveSeqs(S, n) ==
    {q \in SeqsUpTo(S, n) : \A i, j \in DOMAIN q : i # j => q[i] # q[j]}

Abs(a) == IF a < 0 THEN -a ELSE a

Max(S) == CHOOSE m \in S : \A e \in S : e <= m

\* numpy.sqrt(n), for the perfect squares that occur
Sqrt(n) == CHOOSE r \in 0..n : r * r = n

CountOf(s, e) == Cardinality({k \in DOMAIN s : s[k] = e})

\* a validity test that looks at the first vertex of the ridge only
IsValidFirstVertexOnly(v, n) ==
    LET rv == v.ridge_vertices[n + 1]
    IN  /\ rv[1] # -1
        /\ rv[2] # -1
        /\ Max({Abs(v.vertices[rv[1] + 1][c]) : c \in 1..2}) < SUSPICIOUSLY_BIG

\* is_valid_voronoi_ridge(vor, n), lines 491-496
is_valid_voronoi_ridge(v, n) ==
    LET rv == v.ridge_vertices[n + 1]
    IN  /\ rv[1] # -1
        /\ rv[2] # -1
        /\ Max({Abs(v.vertices[rv[k] + 1][c]) : k \in 1..2, c \in 1..2})
             < SUSPICIOUSLY_BIG

\* link_midpoints[i] = (points[ridge_points[i,0]] + points[ridge_points[i,1]]) / 2
\* Kept as the sum of the two end points: halving a float is exact and
\* preserves order, so the sort sees the same order and the same ties.
LinkMidpoints(points, from, to) ==
    [i \in DOMAIN from |->
        << points[from[i] + 1][1] + points[to[i] + 1][1],
           points[from[i] + 1][2] + points[to[i] + 1][2] >>]

\* links left in the order the back end lists the ridges
LinkOrderAsEnumerated(v) == [i \in DOMAIN v.ridge_points |-> i - 1]

\* ind = argsort_points_by_x_then_y(link_midpoints), lines 564-568
LinkOrder(v) ==
    ArgsortPointsByXThenY(
        LinkMidpoints(v.points, Column(v.ridge_points, 1), Column(v.ridge_points, 2)))

\* the loop of lines 574-588 from link i on; al, fw are active_links and
\* face_width so far and j the number of faces so far
RECURSIVE FaceLoop(_, _, _, _, _, _)
FaceLoop(v, ind, i, al, fw, j) ==
    IF i = Len(ind) THEN [active_links |-> al, face_width |-> fw]
    ELSE IF is_valid_voronoi_ridge(v, ind[i + 1])
         THEN LET rv == v.ridge_vertices[ind[i + 1] + 1]
                  c1 == v.vertices[rv[1] + 1]
                  c2 == v.vertices[rv[2] + 1]
                  dx == c2[1] - c1[1]
                  dy == c2[2] - c1[2]
              IN  FaceLoop(v, ind, i + 1,
                           [al EXCEPT ![j + 1] = i],
                           [fw EXCEPT ![j + 1] = Sqrt(dx * dx + dy * dy)],
                           j + 1)
         ELSE FaceLoop(v, ind, i + 1, al, fw, j)

\* num_active_links, lines 556-557: every -1 among the ridge vertices is
\* taken to mark one inactive link
NumActiveLinks(v) ==
    Len(v.ridge_points)
      - CountOf(Column(v.ridge_vertices, 1), -1)
      - CountOf(Column(v.ridge_vertices, 2), -1)

create_links_and_faces_from_voronoi_diagram(v) ==
    LET ind  == LinkOrder(v)
        nal  == NumActiveLinks(v)
        loop == FaceLoop(v, ind, 0, [k \in 1..nal |-> -1], [k \in 1..nal |-> -1], 0)
    IN  [link_fromnode |-> Take(Column(v.ridge_points, 1), ind),
         link_tonode   |-> Take(Column(v.ridge_points, 2), ind),
         active_links  |-> loop.active_links,
         face_width    |-> loop.face_width]

LinksInit ==
    /\ link_pc = "vor"
    /\ \E rp \in InjectiveSeqs(RidgePointPool, MaxRidges) :
       \E rv \in [DOMAIN rp -> RidgeVertexPool] :
            vor = [points |-> VorPoints, ridge_points |-> rp,
                   ridge_vertices |-> rv, vertices |-> VorVertices]
    /\ link_fromnode = <<>>
    /\ link_tonode = <<>>
    /\ active_links = <<>>
    /\ face_width = <<>>

\* _initialize, lines 234-237
CreateLinksAndFaces ==
    /\ link_pc = "vor"
    /\ LET r == create_links_and_faces_from_voronoi_diagram(vor)
       IN  /\ link_fromnode' = r.link_fromnode
           /\ link_tonode' = r.link_tonode
           /\ active_links' = r.active_links
           /\ face_width' = r.face_width
    /\ link_pc' = "emitted"
    /\ UNCHANGED vor

\* ModelGrid.sort_links_by_midpoint (landlab/grid/base.py), called at line
\* 242: the tail and head arrays are put in the order of their midpoints
sort_links_by_midpoint(points, from, to) ==
    LET ind == ArgsortPointsByXThenY(LinkMidpoints(points, from, to))
    IN  [link_fromnode |-> Take(from, ind), link_tonode |-> Take(to, ind)]

SortLinksByMidpoint ==
    /\ link_pc = "emitted"
    /\ LET r == sort_links_by_midpoint(vor.points, link_fromnode, link_tonode)
       IN  /\ link_fromnode' = r.link_fromnode
           /\ link_tonode' = r.link_tonode
    /\ link_pc' = "sorted"
    /\ UNCHANGED <<vor, active_links, face_width>>

InitLinks == LinksInit /\ CtorOff /\ ReoOff /\ CellsOff /\ PatchesOff /\ OpsOff /\ LenOff /\ GeomOff

NextLinks ==
    \/ CreateLinksAndFaces /\ UNCHANGED <<opVars, lenVars, geomVars, ctorVars, attrVars, nodeVars, reoVars, cellVars, statusVars, meshVars, patchVars>>
    \/ SortLinksByMidpoint /\ UNCHANGED <<opVars, lenVars, geomVars, ctorVars, attrVars, nodeVars, reoVars, cellVars, statusVars, meshVars, patchVars>>

SpecLinks == InitLinks /\ [][NextLinks]_vars

-----------------------------------------------------------------------------
(* Claims about links and faces *)

LinksBuilt == link_pc \in {"emitted", "sorted"}

NumLinks == Len(link_fromnode)

\* the ridge (1-based position in vor.ridge_points) that link id i came from
RidgeOfLink(i) ==
    CHOOSE r \in DOMAIN vor.ridge_points :
        vor.ridge_points[r] = <<link_fromnode[i + 1], link_tonode[i + 1]>>

\* both ridge vertices defined and every coordinate of both below the bound
RidgeInRange(r) ==
    LET rv == vor.ridge_vertices[r]
    IN  /\ rv[1] # -1
        /\ rv[2] # -1
        /\ \A k \in 1..2 : \A c \in 1..2 :
              /\ vor.vertices[rv[k] + 1][c] < SUSPICIOUSLY_BIG
              /\ vor.vertices[rv[k] + 1][c] > -SUSPICIOUSLY_BIG

ValidRidges == {r \in DOMAIN vor.ridge_points : RidgeInRange(r)}

\* C3: the active-link array and the face-width array each hold exactly one
\* entry per ridge that passes the validity test, every active-link entry is
\* a link id, no face width is a negative placeholder, and no link is listed
\* twice.
C3_OneFacePerActiveLink ==
    LinksBuilt =>
        /\ Len(active_links) = Cardinality(ValidRidges)
        /\ Len(face_width) = Cardinality(ValidRidges)
        /\ \A k \in DOMAIN active_links : active_links[k] \in 0..(NumLinks - 1)
        /\ \A k \in DOMAIN face_width : face_width[k] >= 0
        /\ \A k, m \in DOMAIN active_links : k # m => active_links[k] # active_links[m]

\* C4: one link per ridge, joining the ridge's two generator points; a link
\* is listed as active iff both ridge vertices are defined and in range; the
\* face width at the position of an active link is the distance between the
\* two ridge vertices.
C4_LinksFromRidges ==
    LinksBuilt =>
        /\ NumLinks = Len(vor.ridge_points)
        /\ Len(link_tonode) = NumLinks
        /\ \A r \in DOMAIN vor.ridge_points :
              Cardinality({i \in 0..(NumLinks - 1) :
                  <<link_fromnode[i + 1], link_tonode[i + 1]>> = vor.ridge_points[r]}) = 1
        /\ \A i \in 0..(NumLinks - 1) :
              (\E k \in DOMAIN active_links : active_links[k] = i)
                  <=> RidgeInRange(RidgeOfLink(i))
        /\ \A k \in DOMAIN active_links :
              active_links[k] # -1 =>
                  LET rv == vor.ridge_vertices[RidgeOfLink(active_links[k])]
                      dx == vor.vertices[rv[2] + 1][1] - vor.vertices[rv[1] + 1][1]
                      dy == vor.vertices[rv[2] + 1][2] - vor.vertices[rv[1] + 1][2]
                  IN  /\ face_width[k] >= 0
                      /\ face_width[k] * face_width[k] = dx * dx + dy * dy

C4_Witness ==
    /\ LinksBuilt
    /\ NumLinks = MaxRidges
    /\ \E k \in DOMAIN active_links : active_links[k] > 0 /\ face_width[k] = 4
    /\ \E r \in DOMAIN vor.ridge_vertices : vor.ridge_vertices[r] = <<0, 2>>
    /\ \E r \in DOMAIN vor.ridge_vertices : -1 \in Range(vor.ridge_vertices[r])

\* midpoint of link id i, doubled
Mid(i) == LinkMidpoints(vor.points, link_fromnode, link_tonode)[i + 1]

\* the diagram with its ridges listed in another order
Reenumerated(v, q) ==
    [v EXCEPT !.ridge_points = [k \in DOMAIN q |-> v.ridge_points[q[k]]],
              !.ridge_vertices = [k \in DOMAIN q |-> v.ridge_vertices[q[k]]]]

\* the numbering does not depend on the order the ridges are listed in
BackEndIndependent ==
    \A q \in Permutations(DOMAIN vor.ridge_points) :
        LET r == create_links_and_faces_from_voronoi_diagram(Reenumerated(vor, q))
        IN  /\ r.link_fromnode = link_fromnode
            /\ r.link_tonode = link_tonode

\* C5 (as stated): links are numbered by midpoint x ascending, ties by
\* midpoint y, whatever order the ridges were listed in.
C5_AsStated ==
    LinksBuilt =>
        /\ \A i, j \in 0..(NumLinks - 1) :
              i < j => \/ Mid(i)[1] < Mid(j)[1]
                       \/ Mid(i)[1] = Mid(j)[1] /\ Mid(i)[2] <= Mid(j)[2]
        /\ BackEndIndependent

\* C5 (amended): links are numbered by midpoint y ascending, ties by
\* midpoint x ascending, and the numbering is the same for every order in
\* which the back end lists the same ridges.
C5_CanonicalByYThenX ==
    LinksBuilt =>
        /\ \A i, j \in 0..(NumLinks - 1) :
              i < j => \/ Mid(i)[2] < Mid(j)[2]
                       \/ Mid(i)[2] = Mid(j)[2] /\ Mid(i)[1] <= Mid(j)[1]
        /\ BackEndIndependent

C5_Witness ==
    /\ link_pc = "sorted"
    /\ NumLinks = MaxRidges
    /\ <<link_fromnode, link_tonode>>
         # <<Column(vor.ridge_points, 1), Column(vor.ridge_points, 2)>>
    /\ \E i, j \in 0..(NumLinks - 1) : i < j /\ Mid(i)[1] > Mid(j)[1]


-----------------------------------------------------------------------------
(* reorient_links_upper_right, lines 592-646 *)

\* largest number of links handed to the reorientation
MaxLinks == 2

\* counts the calls made, to keep the model finite
MaxReorientCalls == 2

\* A 3 x 3 unit lattice in node order (y ascending, then x).
LatticeX == <<0, 1, 2, 0, 1, 2, 0, 1, 2>>
LatticeY == <<0, 0, 0, 1, 1, 1, 2, 2, 2>>

\* <<tail, head>> pairs: every link between the centre node 4 and another
\* node, in both directions (all multiples of 45 degrees), and the knight's
\* moves between outer nodes (directions strictly between them).
LinkPool ==
    {<<4, n>> : n \in (0..8) \ {4}} \cup {<<n, 4>> : n \in (0..8) \ {4}}
      \cup { <<0, 7>>, <<7, 0>>, <<0, 5>>, <<5, 0>>,
             <<2, 3>>, <<3, 2>>, <<2, 7>>, <<7, 2>> }

\* numpy.arctan2(dx, dy) in degrees: the angle of (dx, dy) clockwise from
\* vertical, in (-180, 180].  Multiples of 45 degrees are exact; any other
\* angle is represented by a value inside its open 45-degree sector.  The
\* code compares the angle (plus 45) with 0 and 180 only, so every
\* comparison it makes comes out as for the exact angle.
Arctan2Deg(dx, dy) ==
    IF dx = 0 THEN (IF dy >= 0 THEN 0 ELSE 180)
    ELSE LET a == Abs(dx)
             m == IF dy = 0 THEN 90
                  ELSE IF dy > 0
                       THEN (IF a = dy THEN 45 ELSE IF a < dy THEN 22 ELSE 67)
                       ELSE (IF a = -dy THEN 135 ELSE IF a > -dy THEN 112 ELSE 157)
         IN  IF dx > 0 THEN m ELSE -m

\* a wrap that leaves exactly 180 degrees alone
WrapAngleAbove180(a) == IF a > 180 THEN a - 360 ELSE a

\* link_angle -= 2 * numpy.pi * (link_angle >= numpy.pi), line 630
WrapAngle(a) == IF a >= 180 THEN a - 360 ELSE a

\* a flip test that also flips a link at angle zero
NeedsFlipAtZero(a) == a <= 0

\* numpy.where(link_angle < 0.), line 634
NeedsFlip(a) == a < 0

\* the angle of link position k with the offset added and no wrap
LinkAngleNotWrapped(nx, ny, tail, head, k) ==
    LET link_dx == nx[head[k] + 1] - nx[tail[k] + 1]
        link_dy == ny[head[k] + 1] - ny[tail[k] + 1]
    IN  Arctan2Deg(link_dx, link_dy) + 45

\* lines 616-634: the wrapped angle of link position k
LinkAngle(nx, ny, tail, head, k) ==
    LET link_dx == nx[head[k] + 1] - nx[tail[k] + 1]
        link_dy == ny[head[k] + 1] - ny[tail[k] + 1]
    IN  WrapAngle(Arctan2Deg(link_dx, link_dy) + 45)

FlipLocs(nx, ny, tail, head) ==
    {k \in DOMAIN tail : NeedsFlip(LinkAngle(nx, ny, tail, head, k))}

ReoInit ==
    /\ reo_pc = 0
    /\ node_x = LatticeX
    /\ node_y = LatticeY
    /\ \E ls \in SeqsUpTo(LinkPool, MaxLinks) :
          /\ node_at_link_tail = Column(ls, 1)
          /\ node_at_link_head = Column(ls, 2)
    /\ prev_tail = <<>>
    /\ prev_head = <<>>

\* lines 638-646: heads and tails are exchanged at the flip locations
ReorientLinksUpperRight ==
    /\ reo_pc < MaxReorientCalls
    /\ LET flip_locs == FlipLocs(node_x, node_y, node_at_link_tail, node_at_link_head)
       IN  /\ node_at_link_tail' =
                [k \in DOMAIN node_at_link_tail |->
                    IF k \in flip_locs THEN node_at_link_head[k]
                                       ELSE node_at_link_tail[k]]
           /\ node_at_link_head' =
                [k \in DOMAIN node_at_link_head |->
                    IF k \in flip_locs THEN node_at_link_tail[k]
                                       ELSE node_at_link_head[k]]
    /\ prev_tail' = node_at_link_tail
    /\ prev_head' = node_at_link_head
    /\ reo_pc' = reo_pc + 1
    /\ UNCHANGED <<node_x, node_y>>

InitReorient == ReoInit /\ CtorOffNoNodes /\ LinksOff /\ CellsOff /\ PatchesOff /\ OpsOff /\ LenOff /\ GeomOff

NextReorient ==
    \/ ReorientLinksUpperRight /\ UNCHANGED <<opVars, lenVars, geomVars, ctorVars, attrVars, linkVars, cellVars, statusVars, meshVars, patchVars>>

SpecReorient == InitReorient /\ [][NextReorient]_vars

-----------------------------------------------------------------------------
(* Claims about link orientation *)

\* head minus tail of link position k
Dx(tail, head, k) == node_x[head[k] + 1] - node_x[tail[k] + 1]
Dy(tail, head, k) == node_y[head[k] + 1] - node_y[tail[k] + 1]

\* C6: a second application of reorient_links_upper_right leaves the tail
\* and head arrays as the first application left them.
C6_ReorientIdempotent ==
    reo_pc >= 2 => /\ node_at_link_tail = prev_tail
                   /\ node_at_link_head = prev_head

C6_Witness ==
    /\ reo_pc = 2
    /\ Len(node_at_link_tail) = MaxLinks
    /\ \E k \in DOMAIN node_at_link_tail :
          Dx(node_at_link_tail, node_at_link_head, k) = -1
            /\ Dy(node_at_link_tail, node_at_link_head, k) = 1

-----------------------------------------------------------------------------
(* setup_node_cell_connectivity, lines 379-421, on the node status array
   that find_perimeter_nodes returns (lines 354-372) or a caller supplies *)

\* largest number of nodes handed to setup_node_cell_connectivity
MaxNodes == 3

\* landlab.grid.base, imported at line 6
CORE_NODE == 0
FIXED_VALUE_BOUNDARY == 1
CLOSED_BOUNDARY == 4
BAD_INDEX_VALUE == 2147483647

StatusCodes == {CORE_NODE, FIXED_VALUE_BOUNDARY, CLOSED_BOUNDARY}

\* a node_cell array that starts as zeros, like cell_node
InitialNodeCellZeros(n) == [k \in 1..n |-> 0]

\* numpy.ones(len(node_status), dtype=int) * BAD_INDEX_VALUE, line 413
InitialNodeCell(n) == [k \in 1..n |-> BAD_INDEX_VALUE]

CellsInit ==
    /\ cell_pc = "call"
    /\ node_status \in SeqsUpTo(StatusCodes, MaxNodes)
    /\ ncells \in 0..MaxNodes
    /\ cell = 0
    /\ node = 0
    /\ node_cell = <<>>
    /\ cell_node = <<>>

\* assert ncells == numpy.count_nonzero(node_status == CORE_NODE), line 409
SetupAssertFails ==
    /\ cell_pc = "call"
    /\ ncells # CountOf(node_status, CORE_NODE)
    /\ cell_pc' = "assert_failed"
    /\ UNCHANGED <<ncells, cell, node, node_cell, cell_node, node_status>>

\* lines 412-414
SetupBegin ==
    /\ cell_pc = "call"
    /\ ncells = CountOf(node_status, CORE_NODE)
    /\ cell' = 0
    /\ node' = 0
    /\ node_cell' = InitialNodeCell(Len(node_status))
    /\ cell_node' = [k \in 1..ncells |-> 0]
    /\ cell_pc' = "loop"
    /\ UNCHANGED <<ncells, node_status>>

\* one iteration of the loop of lines 415-419
SetupLoop ==
    /\ cell_pc = "loop"
    /\ node < Len(node_cell)
    /\ IF node_status[node + 1] = CORE_NODE
       THEN /\ node_cell' = [node_cell EXCEPT ![node + 1] = cell]
            /\ cell_node' = [cell_node EXCEPT ![cell + 1] = node]
            /\ cell' = cell + 1
       ELSE UNCHANGED <<node_cell, cell_node, cell>>
    /\ node' = node + 1
    /\ UNCHANGED <<cell_pc, ncells, node_status>>

\* return node_cell, cell_node (line 421)
SetupReturn ==
    /\ cell_pc = "loop"
    /\ node = Len(node_cell)
    /\ cell_pc' = "done"
    /\ UNCHANGED <<ncells, cell, node, node_cell, cell_node, node_status>>

InitCells == CellsInit /\ CtorOff /\ LinksOff /\ ReoOff /\ PatchesOff /\ OpsOff /\ LenOff /\ GeomOff

NextCells ==
    \/ SetupAssertFails /\ UNCHANGED <<opVars, lenVars, geomVars, ctorVars, attrVars, nodeVars, linkVars, reoVars, meshVars, patchVars>>
    \/ SetupBegin /\ UNCHANGED <<opVars, lenVars, geomVars, ctorVars, attrVars, nodeVars, linkVars, reoVars, meshVars, patchVars>>
    \/ SetupLoop /\ UNCHANGED <<opVars, lenVars, geomVars, ctorVars, attrVars, nodeVars, linkVars, reoVars, meshVars, patchVars>>
    \/ SetupReturn /\ UNCHANGED <<opVars, lenVars, geomVars, ctorVars, attrVars, nodeVars, linkVars, reoVars, meshVars, patchVars>>

SpecCells == InitCells /\ [][NextCells]_vars

-----------------------------------------------------------------------------
(* Claims about node / cell connectivity *)

CoreNodes == {n \in 0..(Len(node_status) - 1) : node_status[n + 1] = CORE_NODE}

\* C8: cell ids 0..ncells-1 go to the core nodes in ascending node order,
\* every other node has the no-cell sentinel, which is no cell id, and
\* node_cell and cell_node are inverse to each other, so the number of cells
\* is the number of core nodes.
C8_NodeCellBijection ==
    cell_pc = "done" =>
        /\ Len(node_cell) = Len(node_status)
        /\ Len(cell_node) = Cardinality(CoreNodes)
        /\ \A n \in CoreNodes :
              /\ node_cell[n + 1] = Cardinality({m \in CoreNodes : m < n})
              /\ cell_node[node_cell[n + 1] + 1] = n
        /\ \A n \in (0..(Len(node_status) - 1)) \ CoreNodes :
              /\ node_cell[n + 1] = BAD_INDEX_VALUE
              /\ node_cell[n + 1] \notin 0..(Len(cell_node) - 1)
        /\ \A c \in 0..(Len(cell_node) - 1) :
              /\ cell_node[c + 1] \in CoreNodes
              /\ node_cell[cell_node[c + 1] + 1] = c

C8_Witness ==
    /\ cell_pc = "done"
    /\ Len(node_status) = MaxNodes
    /\ node_status[1] # CORE_NODE
    /\ Cardinality(CoreNodes) >= 2


-----------------------------------------------------------------------------
(* number_of_patches, nodes_at_patch, patches_at_node (lines 267-318) and
   create_patches_from_delaunay_diagram (lines 648-688).

   The geometry back end's part is an input: tri_simplices is what
   Delaunay(self.pts).simplices returns (the same on every call for the same
   points) and vor_regions is self.vor.regions.  Two meshes of four nodes
   are used, each with its simplices in any enumeration order:
     MeshA  a triangle, nodes 0, 1, 3, with node 2 inside it: three patches
     MeshB  a convex quadrilateral split along the diagonal 1-2: two patches
   Filling an integer array with NaN (nodata='nan') raises ValueError under
   some numpy builds and stores the cast of NaN under others; which of the
   two this build does is nan_fill_raises. *)

\* interior: the nodes off the convex hull, which find_perimeter_nodes
\* leaves as core nodes
MeshA == [simplices |-> {<<0, 1, 2>>, <<1, 3, 2>>, <<2, 3, 0>>},
          regions   |-> << <<>>, <<-1, 0, 2>>, <<-1, 0, 1>>, <<0, 1, 2>>, <<-1, 1, 2>> >>,
          interior  |-> {2}]

MeshB == [simplices |-> {<<0, 1, 2>>, <<1, 3, 2>>},
          regions   |-> << <<-1, 0>>, <<-1, 0, 1>>, <<>>, <<1, 0, -1>>, <<-1, 1>> >>,
          interior  |-> {}]

\* what an integer array holds after fill(nan), where that does not raise:
\* the cast of NaN, the most negative integer (here the most negative one
\* of the model's integers)
NanAsInt == -2147483647

NodataArgs == {"minus_one", "bad_value", "nan", "other"}

\* the sets of nodes the caller has closed before the first patch query
ClosedChoices == {{}, {0}, {2}, {1, 3}}

ConstructedAttrs == {"pts", "_node_x", "_node_y"}

NumberOfNodes == Len(node_status)

\* self.is_boundary(i, boundary_flag=4) (ModelGrid.is_boundary, base.py)
IsClosed(i) == node_status[i + 1] = CLOSED_BOUNDARY

RECURSIVE SortedSeq(_)
SortedSeq(S) ==
    IF S = {} THEN <<>>
    ELSE LET m == CHOOSE e \in S : \A f \in S : e <= f
         IN  <<m>> \o SortedSeq(S \ {m})

\* a search that looks at the first two corners of each patch only
PatchesWithNodeTwoCorners(simp, i) ==
    SortedSeq({q \in 0..(Len(simp) - 1) : \E c \in 1..2 : simp[q + 1][c] = i})

\* numpy.argwhere(numpy.equal(self._nodes_at_patch, i))[:, 0], lines 682-683
PatchesWithNode(simp, i) ==
    SortedSeq({q \in 0..(Len(simp) - 1) : \E c \in 1..3 : simp[q + 1][c] = i})

\* lines 670-676
MaxDimension(regions) ==
    IF regions = <<>> THEN 0 ELSE Max({Len(regions[k]) : k \in DOMAIN regions})

\* lines 659-666: the fill value for a nodata argument; "raise" for one
\* that is not recognised
Nodata(arg) ==
    CASE arg = "minus_one" -> [ok |-> TRUE, nan |-> FALSE, value |-> -1]
      [] arg = "bad_value" -> [ok |-> TRUE, nan |-> FALSE, value |-> BAD_INDEX_VALUE]
      [] arg = "nan"       -> [ok |-> TRUE, nan |-> TRUE, value |-> NanAsInt]
      [] OTHER             -> [ok |-> FALSE, nan |-> FALSE, value |-> 0]

\* lines 677-685: row i of the table
PatchRow(simp, width, fill, i) ==
    IF IsClosed(i) THEN [k \in 1..width |-> fill]
    ELSE LET pw == PatchesWithNode(simp, i)
         IN  [k \in 1..width |-> IF k <= Len(pw) THEN pw[k] ELSE fill]

\* the row assignment of lines 684-685 fails (shapes do not match) when a
\* node has more patches than the table is wide
RowOverflows(simp, width) ==
    \E i \in 0..(NumberOfNodes - 1) :
        ~IsClosed(i) /\ Len(PatchesWithNode(simp, i)) > width

\* create_patches_from_delaunay_diagram(self.pts, self.vor, nodata): what
\* the attributes are afterwards, and whether the call raised
create_patches_from_delaunay_diagram(arg) ==
    LET nd    == Nodata(arg)
        width == MaxDimension(vor_regions)
        kept  == [outcome |-> "ValueError", attrs |-> attrs,
                  patches_at_node |-> self_patches_at_node,
                  nodes_at_patch |-> self_nodes_at_patch,
                  number_of_patches |-> self_number_of_patches]
        \* lines 668-669 have run, the table has not been stored
        half  == [kept EXCEPT !.attrs = attrs \cup {"_nodes_at_patch", "_number_of_patches"},
                              !.nodes_at_patch = tri_simplices,
                              !.number_of_patches = Len(tri_simplices)]
    IN  IF ~nd.ok THEN kept
        ELSE IF nd.nan /\ nan_fill_raises THEN half
        ELSE IF RowOverflows(tri_simplices, width) THEN half
        ELSE [half EXCEPT !.outcome = "ok",
                          !.attrs = half.attrs \cup {"_patches_at_node"},
                          !.patches_at_node =
                              [k \in 1..NumberOfNodes |->
                                  PatchRow(tri_simplices, width, nd.value, k - 1)]]

\* an else branch that forgets the set_bad_value flag and always rebuilds
UseCachedNever(arg) == arg = "minus_one" /\ "_patches_at_node" \in attrs

\* patches_at_node, lines 302-318: whether the call returns the cached
\* table without building
UseCached(arg) ==
    IF arg = "minus_one" THEN "_patches_at_node" \in attrs
    ELSE "set_bad_value" \in attrs

PatchesInit ==
    /\ \E m \in {MeshA, MeshB} :
          /\ tri_simplices \in {q \in [1..Cardinality(m.simplices) -> m.simplices] :
                                    Range(q) = m.simplices}
          /\ vor_regions = m.regions
          /\ \E closed \in ClosedChoices :
                node_status = [k \in 1..4 |->
                                  IF k - 1 \in closed THEN CLOSED_BOUNDARY
                                  ELSE IF k - 1 \in m.interior THEN CORE_NODE
                                  ELSE FIXED_VALUE_BOUNDARY]
    /\ nan_fill_raises \in BOOLEAN
    /\ attrs = ConstructedAttrs
    /\ self_patches_at_node = <<>>
    /\ self_nodes_at_patch = <<>>
    /\ self_number_of_patches = 0
    /\ call = NoCall
    /\ ret = <<>>
    /\ prev_call = NoCall
    /\ prev_ret = <<>>

\* the record of a call, given the attributes before it
CallRecord(op, arg, outcome, built) ==
    [op |-> op, nodata |-> arg, outcome |-> outcome, built |-> built,
     before |-> self_patches_at_node,
     before_nodata |-> IF "_patches_at_node" \in attrs THEN call.cache_nodata ELSE "none",
     cache_nodata |-> IF built /\ outcome = "ok" THEN arg
                      ELSE IF "_patches_at_node" \in attrs THEN call.cache_nodata
                      ELSE "none"]

Store(r) ==
    /\ self_patches_at_node' = r.patches_at_node
    /\ self_nodes_at_patch' = r.nodes_at_patch
    /\ self_number_of_patches' = r.number_of_patches

\* grid.patches_at_node(nodata)
PatchesAtNode(arg) ==
    /\ IF UseCached(arg)
       THEN /\ UNCHANGED <<attrs, self_patches_at_node, self_nodes_at_patch,
                           self_number_of_patches>>
            /\ call' = CallRecord("patches_at_node", arg, "ok", FALSE)
            /\ ret' = self_patches_at_node
       ELSE LET r == create_patches_from_delaunay_diagram(arg)
            IN  /\ Store(r)
                /\ attrs' = IF r.outcome = "ok" /\ arg # "minus_one"
                            THEN r.attrs \cup {"set_bad_value"}
                            ELSE r.attrs
                /\ call' = CallRecord("patches_at_node", arg, r.outcome, TRUE)
                /\ ret' = IF r.outcome = "ok" THEN r.patches_at_node ELSE <<>>
    /\ prev_call' = call
    /\ prev_ret' = ret

\* grid.number_of_patches and grid.nodes_at_patch, lines 267-287
PropertyAccess(op, attr) ==
    /\ IF attr \in attrs
       THEN /\ UNCHANGED <<attrs, self_patches_at_node, self_nodes_at_patch,
                           self_number_of_patches>>
            /\ call' = CallRecord(op, "minus_one", "ok", FALSE)
       ELSE LET r == create_patches_from_delaunay_diagram("minus_one")
            IN  /\ Store(r)
                /\ attrs' = r.attrs
                /\ call' = CallRecord(op, "minus_one", r.outcome, TRUE)
    /\ ret' = <<>>
    /\ prev_call' = call
    /\ prev_ret' = ret

NumberOfPatches == PropertyAccess("number_of_patches", "_number_of_patches")

NodesAtPatch == PropertyAccess("nodes_at_patch", "_nodes_at_patch")

\* a direct call grid.create_patches_from_delaunay_diagram(grid.pts,
\* grid.vor, nodata): the table is built again whatever is cached
RebuildPatches(arg) ==
    /\ LET r == create_patches_from_delaunay_diagram(arg)
       IN  /\ Store(r)
           /\ attrs' = r.attrs
           /\ call' = CallRecord("create_patches", arg, r.outcome, TRUE)
    /\ ret' = <<>>
    /\ prev_call' = call
    /\ prev_ret' = ret

InitPatches == PatchesInit /\ CtorDone /\ node_x = <<>> /\ node_y = <<>>
                 /\ LinksOff /\ ReoOff /\ CellsOffNoStatus /\ OpsOff /\ LenOff /\ GeomOff

NextPatches ==
    \/ \E arg \in NodataArgs : PatchesAtNode(arg)
          /\ UNCHANGED <<opVars, lenVars, geomVars, ctorVars, nodeVars, linkVars, reoVars, cellVars, statusVars, meshVars>>
    \/ NumberOfPatches
          /\ UNCHANGED <<opVars, lenVars, geomVars, ctorVars, nodeVars, linkVars, reoVars, cellVars, statusVars, meshVars>>
    \/ NodesAtPatch
          /\ UNCHANGED <<opVars, lenVars, geomVars, ctorVars, nodeVars, linkVars, reoVars, cellVars, statusVars, meshVars>>
    \/ \E arg \in NodataArgs : RebuildPatches(arg)
          /\ UNCHANGED <<opVars, lenVars, geomVars, ctorVars, nodeVars, linkVars, reoVars, cellVars, statusVars, meshVars>>

SpecPatches == InitPatches /\ [][NextPatches]_vars

-----------------------------------------------------------------------------
(* Claims about patches *)

\* the entries of row i of table t that lie past the patches of node i
PaddingOf(t, i) ==
    LET used == IF IsClosed(i) THEN 0 ELSE Len(PatchesWithNode(tri_simplices, i))
    IN  {t[i + 1][k] : k \in (used + 1)..Len(t[i + 1])}

C10_PaddingAsRequested ==
    (/\ call.op = "patches_at_node"
     /\ call.nodata \in {"minus_one", "bad_value"}
     /\ call.cache_nodata # "nan"
     /\ call.outcome = "ok")
      => \A i \in 0..(NumberOfNodes - 1) :
            \A e \in PaddingOf(ret, i) : e = Nodata(call.nodata).value

\* C11: a patches_at_node call with a nodata option other than -1,
\* 'bad_value' or 'nan' raises and returns no table, in every state of the
\* grid: before the table is built, with a table cached by a default call,
\* and after a non-default nodata has been used.
C11_InvalidNodataRaises ==
    (call.op = "patches_at_node" /\ call.nodata = "other")
      => /\ call.outcome = "ValueError"
         /\ ret = <<>>

\* the patch ids i is a corner of, read from the stored nodes_at_patch
PatchIdsAt(i) ==
    {q \in 0..(Len(self_nodes_at_patch) - 1) :
        \E c \in 1..3 : self_nodes_at_patch[q + 1][c] = i}

\* row lists exactly the ids in ids, ascending, each once, then only fill
ListsThenPads(row, ids, fill) ==
    LET n == Cardinality(ids)
    IN  /\ n <= Len(row)
        /\ {row[k] : k \in 1..n} = ids
        /\ \A k \in 1..(n - 1) : row[k] < row[k + 1]
        /\ \A k \in (n + 1)..Len(row) : row[k] = fill

\* C13: in a built table the row of every non-closed node lists exactly the
\* patches that have the node among their nodes_at_patch corners, each once,
\* in ascending id order, followed only by the nodata value the table was
\* built with; and number_of_patches is the number of rows of
\* nodes_at_patch.
C13_RowsListPatches ==
    /\ "_patches_at_node" \in attrs
         => /\ Len(self_patches_at_node) = NumberOfNodes
            /\ \A i \in 0..(NumberOfNodes - 1) :
                  ~IsClosed(i) =>
                      ListsThenPads(self_patches_at_node[i + 1], PatchIdsAt(i),
                                    Nodata(call.cache_nodata).value)
    /\ "_number_of_patches" \in attrs
         => self_number_of_patches = Len(self_nodes_at_patch)
    /\ (call.op = "patches_at_node" /\ call.outcome = "ok")
         => ret = self_patches_at_node

\* a table is cached in which one node's row is full (three patches) and
\* another node's row has one patch id followed by padding
C13_Witness ==
    /\ "_patches_at_node" \in attrs
    /\ call.op = "patches_at_node"
    /\ call.outcome = "ok"
    /\ self_number_of_patches = 3
    /\ \E i \in 0..(NumberOfNodes - 1) :
          ~IsClosed(i) /\ Cardinality(PatchIdsAt(i)) = 3
    /\ \E i \in 0..(NumberOfNodes - 1) :
          /\ ~IsClosed(i)
          /\ Cardinality(PatchIdsAt(i)) = 2
          /\ self_patches_at_node[i + 1][3] = -1

-----------------------------------------------------------------------------
(* Boundary-status changes between patch queries.

   The caller changes the status of a node (grid.status_at_node, base.py,
   as find_perimeter_nodes anticipates at lines 357-358); the change
   recomputes the active-link subset only and leaves the patch attributes
   alone.  create_patches_from_delaunay_diagram reads the status through
   self.is_boundary(i, boundary_flag=4) at the time it builds. *)

\* the status codes the caller writes
WrittenStatus == {FIXED_VALUE_BOUNDARY, CLOSED_BOUNDARY}

\* grid.status_at_node[i] = s
SetStatusAtNode(i, s) ==
    /\ node_status[i + 1] # s
    /\ node_status' = [node_status EXCEPT ![i + 1] = s]
    /\ UNCHANGED <<attrs, self_patches_at_node, self_nodes_at_patch,
                   self_number_of_patches>>
    /\ call' = CallRecord("status_at_node", "minus_one", "ok", FALSE)
    /\ ret' = <<>>
    /\ prev_call' = call
    /\ prev_ret' = ret

\* every node open, the simplices in ascending order of their first corner
InitPatchStatus ==
    /\ InitPatches
    /\ \A i \in 0..(NumberOfNodes - 1) : ~IsClosed(i)
    /\ \A k \in 1..(Len(tri_simplices) - 1) :
          tri_simplices[k][1] < tri_simplices[k + 1][1]

NextPatchStatus ==
    \/ \E arg \in NodataArgs : PatchesAtNode(arg)
          /\ UNCHANGED <<opVars, lenVars, geomVars, ctorVars, nodeVars, linkVars, reoVars, cellVars, statusVars, meshVars>>
    \/ \E i \in 0..(NumberOfNodes - 1), s \in WrittenStatus : SetStatusAtNode(i, s)
          /\ UNCHANGED <<opVars, lenVars, geomVars, ctorVars, nodeVars, linkVars, reoVars, cellVars, meshVars>>

SpecPatchStatus == InitPatchStatus /\ [][NextPatchStatus]_vars

\* C12: the table a patches_at_node call returns has only nodata entries in
\* the row of every node that is CLOSED when the call is made, whatever
\* status changes and patch queries came before.
C12_ClosedRowsEmpty ==
    (call.op = "patches_at_node" /\ call.outcome = "ok")
      => \A i \in 0..(NumberOfNodes - 1) :
            IsClosed(i) =>
                \A k \in 1..Len(ret[i + 1]) :
                    ret[i + 1][k] \in {-1, BAD_INDEX_VALUE, NanAsInt}

-----------------------------------------------------------------------------
(* The grids the operators are called on.

   The operators read finished grid tables.  The grids used are rectangular
   lattices of nr rows and nc columns with column spacing dx and row
   spacing dy, nodes numbered row by row from the lower left and links
   numbered as the module docstring of mappers.py draws them (lines 31-54):
   row by row, the horizontal links of a row (pointing east) before the
   vertical links that leave it (pointing north).  Perimeter nodes are
   boundary nodes, the others core nodes.  A link is active when neither
   end is closed and at least one end is a core node; the face of an active
   link is as wide as the spacing across it and a cell has area dx * dy.
   All numbers are integers or exact fractions <<numerator, denominator>>;
   with spacings that are powers of two floating point arithmetic on them
   is exact. *)

\* <<rows, columns>>
LatticeShapes == {<<3, 4>>, <<3, 5>>}

\* <<dx, dy>>
Spacings == {<<1, 1>>, <<2, 1>>}

\* which perimeter nodes the caller has closed
BoundaryPatterns == {"open", "closed", "left_closed"}

LinksPerRow(nc) == 2 * nc - 1

NumberOfLatticeLinks(nr, nc) == nr * (nc - 1) + (nr - 1) * nc

IsHorizontalLink(l, nc) == l % LinksPerRow(nc) < nc - 1

LatticeTail(l, nc) ==
    LET r == l \div LinksPerRow(nc)
        k == l % LinksPerRow(nc)
    IN  IF k < nc - 1 THEN r * nc + k ELSE r * nc + (k - (nc - 1))

LatticeHead(l, nc) ==
    IF IsHorizontalLink(l, nc) THEN LatticeTail(l, nc) + 1
    ELSE LatticeTail(l, nc) + nc

IsPerimeter(n, nr, nc) ==
    \/ n \div nc \in {0, nr - 1}
    \/ n % nc \in {0, nc - 1}

LatticeStatus(nr, nc, pattern) ==
    [k \in 1..(nr * nc) |->
        IF ~IsPerimeter(k - 1, nr, nc) THEN CORE_NODE
        ELSE IF pattern = "closed" \/ (pattern = "left_closed" /\ (k - 1) % nc = 0)
             THEN CLOSED_BOUNDARY
             ELSE FIXED_VALUE_BOUNDARY]

\* the active links: neither end closed, at least one end a core node
ActiveLinkIds(status, tail, head) ==
    SortedSeq({l \in 0..(Len(tail) - 1) :
                  /\ status[tail[l + 1] + 1] # CLOSED_BOUNDARY
                  /\ status[head[l + 1] + 1] # CLOSED_BOUNDARY
                  /\ \/ status[tail[l + 1] + 1] = CORE_NODE
                     \/ status[head[l + 1] + 1] = CORE_NODE})

\* the positions in the active-link arrays of the active links that have
\* node n at the given end, in ascending order
ActiveLinksAtEnd(active, ends, n) ==
    SortedSeq({k \in 0..(Len(active) - 1) : ends[active[k + 1] + 1] = n})

\* a fixed-width matrix, row r holding for every node its r-th active link
\* at that end, or -1
ActiveLinkMatrix(active, ends, nnodes, nrows) ==
    [r \in 1..nrows |->
        [k \in 1..nnodes |->
            LET at == ActiveLinksAtEnd(active, ends, k - 1)
            IN  IF r <= Len(at) THEN at[r] ELSE -1]]

\* the links at node n from south going clockwise (S, W, N, E)
LatticeLinksAtNode(n, nr, nc) ==
    LET r == n \div nc
        c == n % nc
        S == IF r > 0 THEN <<(r - 1) * LinksPerRow(nc) + (nc - 1) + c>> ELSE <<>>
        W == IF c > 0 THEN <<r * LinksPerRow(nc) + c - 1>> ELSE <<>>
        N == IF r < nr - 1 THEN <<r * LinksPerRow(nc) + (nc - 1) + c>> ELSE <<>>
        E == IF c < nc - 1 THEN <<r * LinksPerRow(nc) + c>> ELSE <<>>
    IN  S \o W \o N \o E

LatticeGrid(shape, spacing, pattern) ==
    LET nr == shape[1]
        nc == shape[2]
        nnodes == nr * nc
        nlinks == NumberOfLatticeLinks(nr, nc)
        tail == [l \in 1..nlinks |-> LatticeTail(l - 1, nc)]
        head == [l \in 1..nlinks |-> LatticeHead(l - 1, nc)]
        status == LatticeStatus(nr, nc, pattern)
        active == ActiveLinkIds(status, tail, head)
        core == SortedSeq({n \in 0..(nnodes - 1) : status[n + 1] = CORE_NODE})
        nrows == 2
    IN  [shape |-> shape,
         number_of_nodes |-> nnodes,
         number_of_links |-> nlinks,
         node_at_link_tail |-> tail,
         node_at_link_head |-> head,
         status_at_node |-> status,
         active_links |-> active,
         number_of_active_links |-> Len(active),
         face_width |-> [k \in 1..Len(active) |->
                            IF IsHorizontalLink(active[k], nc) THEN spacing[2]
                            ELSE spacing[1]],
         node_at_cell |-> core,
         core_cells |-> [c \in 1..Len(core) |-> c - 1],
         area_of_cell |-> [c \in 1..Len(core) |-> spacing[1] * spacing[2]],
         node_active_inlink_matrix |-> ActiveLinkMatrix(active, head, nnodes, nrows),
         node_active_outlink_matrix |-> ActiveLinkMatrix(active, tail, nnodes, nrows),
         links_at_node |-> [k \in 1..nnodes |->
                              LET at == LatticeLinksAtNode(k - 1, nr, nc)
                              IN  [j \in 1..4 |-> IF j <= Len(at) THEN at[j] ELSE -1]],
         link_dirs_at_node |-> [k \in 1..nnodes |->
                              LET at == LatticeLinksAtNode(k - 1, nr, nc)
                              IN  [j \in 1..4 |->
                                      IF j > Len(at) THEN 0
                                      ELSE IF head[at[j] + 1] = k - 1 THEN 1 ELSE -1]]]

\* every small lattice, and the 4 x 5 lattice of the doctest of
\* calculate_flux_divergence_at_nodes (grid_funcs.py lines 95-104)
Grids ==
    {LatticeGrid(shape, spacing, pattern) :
        shape \in LatticeShapes, spacing \in Spacings, pattern \in BoundaryPatterns}
      \cup {LatticeGrid(<<4, 5>>, <<1, 1>>, "open")}

\* a[k] as numpy reads it: a negative k counts from the end
PyIndex(a, k) == IF k < 0 THEN a[Len(a) + k + 1] ELSE a[k + 1]

\* exact fractions <<numerator, denominator>>, denominator positive, reduced
RECURSIVE GCD(_, _)
GCD(a, b) == IF b = 0 THEN a ELSE GCD(b, a % b)

Frac(n, d) ==
    LET g == GCD(Abs(n), d)
    IN  <<(IF n < 0 THEN 0 - (Abs(n) \div g) ELSE n \div g), d \div g>>

FracAdd(a, b) == Frac(a[1] * b[2] + b[1] * a[2], a[2] * b[2])

FracSub(a, b) == Frac(a[1] * b[2] - b[1] * a[2], a[2] * b[2])

FracDiv(a, k) == Frac(a[1], a[2] * k)

Filled(n, v) == [k \in 1..n |-> Frac(v, 1)]


-----------------------------------------------------------------------------
(* calculate_flux_divergence_at_nodes, grid_funcs.py lines 65-143.

   A call either returns or raises; the record of a call keeps the arrays
   as they were passed, so that what the call did to them can be read off.
   A float array holds exact fractions; the caller's flux array holds
   integers. *)

\* flux values range over -MaxFlux..MaxFlux
MaxFlux == 2

\* the out argument: None, or an array
None == [given |-> FALSE, a |-> <<>>]

Buffer(a) == [given |-> TRUE, a |-> a]

\* the value an out buffer holds before its first use
StaleValue == 7

\* the flux arrays a caller passes: uniform ones, one link carrying flux,
\* a ramp, and arrays of a wrong length
FluxArrays(g) ==
    LET na == g.number_of_active_links
    IN  {[k \in 1..na |-> v] : v \in (0 - MaxFlux)..MaxFlux}
          \cup {[k \in 1..na |-> IF k = j THEN MaxFlux ELSE 0] : j \in {1, na}}
          \cup {[k \in 1..na |-> (k % (MaxFlux + 1)) - 1]}
          \cup {[k \in 1..n |-> 1] : n \in {1, na - 1, na + 1, g.number_of_links}}

\* the out buffers a caller passes, besides None and the buffer of the call
\* before: a buffer of stale values of the right or of a wrong length
FreshBuffers(n) == {Buffer(Filled(m, StaleValue)) : m \in {n - 1, n}}

\* grid.empty(centering='node'): an array of the right length whose
\* contents are whatever the memory held
Empty(n) == {Filled(n, 0), Filled(n, StaleValue)}

\* a * b of two arrays, with numpy's broadcasting of a length-1 array
Multiply(a, b) ==
    IF Len(a) = Len(b) THEN [ok |-> TRUE, v |-> [k \in 1..Len(a) |-> a[k] * b[k]]]
    ELSE IF Len(a) = 1 THEN [ok |-> TRUE, v |-> [k \in 1..Len(b) |-> a[1] * b[k]]]
    ELSE IF Len(b) = 1 THEN [ok |-> TRUE, v |-> [k \in 1..Len(a) |-> a[k] * b[1]]]
    ELSE [ok |-> FALSE, v |-> <<>>]

\* a flux buffer without the extra slot
FluxBufferNoExtraSlot(f, w) == Multiply(f, w)

\* lines 122-123: flux = zeros(len + 1); flux[:len] = active_link_flux * face_width
FluxBuffer(f, w) ==
    LET p == Multiply(f, w)
    IN  IF ~p.ok \/ Len(p.v) \notin {Len(f), 1} THEN [ok |-> FALSE, v |-> <<>>]
        ELSE [ok |-> TRUE,
              v |-> [k \in 1..(Len(f) + 1) |->
                        IF k > Len(f) THEN 0
                        ELSE IF Len(p.v) = 1 THEN p.v[1] ELSE p.v[k]]]

\* whether every entry of the index matrix m is an index numpy accepts for a
IndicesInRange(a, m) ==
    \A r \in DOMAIN m : \A k \in DOMAIN m[r] :
        m[r][k] >= 0 - Len(a) /\ m[r][k] < Len(a)

\* lines 135-137, from row i on
RECURSIVE AddOutSubtractIn(_, _, _, _)
AddOutSubtractIn(g, flux, net, i) ==
    IF i > Len(g.node_active_inlink_matrix) THEN net
    ELSE AddOutSubtractIn(g, flux,
            [k \in DOMAIN net |->
                FracSub(FracAdd(net[k],
                                Frac(PyIndex(flux, g.node_active_outlink_matrix[i][k]), 1)),
                        Frac(PyIndex(flux, g.node_active_inlink_matrix[i][k]), 1))],
            i + 1)

\* a version that leaves the sums undivided
DivideAtCoreCellsNot(g, net) == net

\* lines 140-141
DivideAtCoreCells(g, net) ==
    [k \in DOMAIN net |->
        IF \E c \in DOMAIN g.core_cells : g.node_at_cell[g.core_cells[c] + 1] = k - 1
        THEN LET c == CHOOSE c \in DOMAIN g.core_cells :
                          g.node_at_cell[g.core_cells[c] + 1] = k - 1
             IN  FracDiv(net[k], g.area_of_cell[g.core_cells[c] + 1])
        ELSE net[k]]

\* a length test against the number of links, active or not
FluxLengthIsNumberOfLinks(f, g) == Len(f) = g.number_of_links

\* lines 106-107
FluxLengthOk(f, g) == Len(f) = g.number_of_active_links

\* a version without line 112
FillNot(buf) == buf

\* line 112: out.fill(0.)
Fill(buf) == [k \in DOMAIN buf |-> Frac(0, 1)]

\* the call: f the flux array, o the out argument (None or a buffer),
\* fresh the array grid.empty returns when o is None.  The result tells
\* how the call ended, what it returned, whether the returned object is
\* the out argument, and what the out argument holds afterwards.
calculate_flux_divergence_at_nodes(g, f, o, fresh) ==
    LET none == ~o.given
        raised(e, after) == [outcome |-> e, value |-> <<>>, is_out |-> FALSE, out |-> after]
    IN  IF ~FluxLengthOk(f, g) THEN raised("AssertionError", o)
        ELSE LET net0 == Fill(IF none THEN fresh ELSE o.a)
                 o1   == IF none THEN o ELSE Buffer(net0)
             IN  IF Len(net0) # g.number_of_nodes THEN raised("AssertionError", o1)
                 ELSE LET flux == FluxBuffer(f, g.face_width)
                      IN  IF ~flux.ok THEN raised("ValueError", o1)
                          ELSE IF ~(/\ IndicesInRange(flux.v, g.node_active_outlink_matrix)
                                    /\ IndicesInRange(flux.v, g.node_active_inlink_matrix))
                               THEN raised("IndexError", o1)
                          ELSE LET net == DivideAtCoreCells(g,
                                              AddOutSubtractIn(g, flux.v, net0, 1))
                               IN  [outcome |-> "ok", value |-> net, is_out |-> ~none,
                                    out |-> IF none THEN o ELSE Buffer(net)]

\* the record of an operator call
OpRecord(name, args, r) ==
    [name |-> name, outcome |-> r.outcome, value |-> r.value, is_out |-> r.is_out,
     before |-> args]

\* the out arguments a caller passes for a result of n elements: in its
\* first call None or a buffer not used before, in later calls what it
\* passed before, as that call left it
OutArguments(n) ==
    IF last_op.name = "none" THEN {None} \cup FreshBuffers(n) ELSE {out}

CalculateFluxDivergenceAtNodes ==
    /\ last_op.name \in {"none", "calculate_flux_divergence_at_nodes"}
    /\ \E f \in FluxArrays(grid), o \in OutArguments(grid.number_of_nodes) :
       \E fresh \in (IF o.given THEN {<<>>} ELSE Empty(grid.number_of_nodes)) :
          LET r == calculate_flux_divergence_at_nodes(grid, f, o, fresh)
          IN  /\ active_link_flux' = f
              /\ out' = r.out
              /\ last_op' = OpRecord("calculate_flux_divergence_at_nodes",
                                     [active_link_flux |-> f, out |-> o], r)
    /\ UNCHANGED <<grid, var_name, control_name, value_name>>

-----------------------------------------------------------------------------
(* The mapping functions of mappers.py.

   Each takes the grid, one or two value arrays and an optional out buffer.
   The caller's arrays hold integers, the results are float arrays.  A
   numpy index out of range raises IndexError; an assignment or an out=
   argument whose shapes cannot be broadcast raises ValueError. *)

\* np.finfo(dtype=float).max, as the largest number of the model
FloatMax == 2147483647

\* how a call ends: raising e, or returning v (written to the out buffer
\* when there is one)
Raised(e, o) == [outcome |-> e, value |-> <<>>, is_out |-> FALSE, out |-> o]

Returned(v, o) ==
    [outcome |-> "ok", value |-> v, is_out |-> o.given,
     out |-> IF o.given THEN Buffer(v) ELSE o]

ToFloat(a) == [k \in DOMAIN a |-> Frac(a[k], 1)]

\* a[idx] for an index array idx
TakeAt(a, idx) ==
    IF \A k \in DOMAIN idx : idx[k] >= 0 - Len(a) /\ idx[k] < Len(a)
    THEN [ok |-> TRUE, v |-> [k \in DOMAIN idx |-> PyIndex(a, idx[k])]]
    ELSE [ok |-> FALSE, v |-> <<>>]

\* a[table] for a two-dimensional index array
TakeTable(a, table) ==
    IF IndicesInRange(a, table)
    THEN [ok |-> TRUE,
          v |-> [r \in DOMAIN table |-> [k \in DOMAIN table[r] |-> PyIndex(a, table[r][k])]]]
    ELSE [ok |-> FALSE, v |-> <<>>]

\* out[:] = rhs, and ufunc(..., out=out) with result rhs: rhs has to be as
\* long as the target, or of length 1
Write(o, fresh, rhs) ==
    LET target == IF o.given THEN o.a ELSE fresh
    IN  IF Len(rhs) = Len(target) THEN Returned(rhs, o)
        ELSE IF Len(rhs) = 1 THEN Returned([k \in DOMAIN target |-> rhs[1]], o)
        ELSE Raised("ValueError", o)

Min2(a, b) == IF a < b THEN a ELSE b

Max2(a, b) == IF a > b THEN a ELSE b

RowMax(row) == CHOOSE m \in Range(row) : \A x \in Range(row) : x <= m

RowMin(row) == CHOOSE m \in Range(row) : \A x \in Range(row) : m <= x

\* numpy.argmax along a row: the first position of the largest entry
ArgMax(row) ==
    CHOOSE j \in DOMAIN row :
        /\ \A i \in DOMAIN row : row[i] <= row[j]
        /\ \A i \in 1..(j - 1) : row[i] < row[j]

RECURSIVE SumSeq(_)
SumSeq(s) == IF s = <<>> THEN 0 ELSE Head(s) + SumSeq(Tail(s))

\* values at the two ends of every link, combined by fn
AtLinkEnds(g, v, o, fresh, fn(_, _)) ==
    LET h == TakeAt(v, g.node_at_link_head)
        t == TakeAt(v, g.node_at_link_tail)
    IN  IF ~h.ok \/ ~t.ok THEN Raised("IndexError", o)
        ELSE Write(o, fresh, [k \in DOMAIN h.v |-> fn(h.v[k], t.v[k])])

\* a minimum that always takes the head node's value
MinValueTakesHead(h, t) == Frac(h, 1)

MinValue(h, t) == Frac(Min2(h, t), 1)

MaxValue(h, t) == Frac(Max2(h, t), 1)

MeanValue(h, t) == Frac(h + t, 2)

\* a head mapper that reads the tail node
HeadMapperReadsTail(g, v, o, fresh) ==
    LET t == TakeAt(v, g.node_at_link_tail)
    IN  IF ~t.ok THEN Raised("IndexError", o) ELSE Write(o, fresh, ToFloat(t.v))

\* lines 111-117
map_link_head_node_to_link(g, v, o, fresh) ==
    LET h == TakeAt(v, g.node_at_link_head)
    IN  IF ~h.ok THEN Raised("IndexError", o) ELSE Write(o, fresh, ToFloat(h.v))

\* lines 171-178
map_link_tail_node_to_link(g, v, o, fresh) ==
    LET t == TakeAt(v, g.node_at_link_tail)
    IN  IF ~t.ok THEN Raised("IndexError", o) ELSE Write(o, fresh, ToFloat(t.v))

\* lines 231-239
map_min_of_link_nodes_to_link(g, v, o, fresh) == AtLinkEnds(g, v, o, fresh, MinValue)

\* lines 292-300
map_max_of_link_nodes_to_link(g, v, o, fresh) == AtLinkEnds(g, v, o, fresh, MaxValue)

\* lines 352-360
map_mean_of_link_nodes_to_link(g, v, o, fresh) == AtLinkEnds(g, v, o, fresh, MeanValue)

\* lines 416-429 and 485-498: np.where(tail_control < head_control, tail_vals,
\* head_vals), with > for the max version
ValueAtExtremeNode(g, c, v, o, fresh, tail_wins(_, _)) ==
    LET hc == TakeAt(c, g.node_at_link_head)
        tc == TakeAt(c, g.node_at_link_tail)
        hv == TakeAt(v, g.node_at_link_head)
        tv == TakeAt(v, g.node_at_link_tail)
    IN  IF ~hc.ok \/ ~tc.ok \/ ~hv.ok \/ ~tv.ok THEN Raised("IndexError", o)
        ELSE Write(o, fresh,
                   [k \in DOMAIN hc.v |->
                       Frac(IF tail_wins(tc.v[k], hc.v[k]) THEN tv.v[k] ELSE hv.v[k], 1)])

Less(a, b) == a < b

Greater(a, b) == a > b

LessOrEqual(a, b) == a <= b

\* a minimum-node mapper that takes the tail node's value on a tie
ValueAtMinNodeTailOnTie(g, c, v, o, fresh) ==
    ValueAtExtremeNode(g, c, v, o, fresh, LessOrEqual)

map_value_at_min_node_to_link(g, c, v, o, fresh) ==
    ValueAtExtremeNode(g, c, v, o, fresh, Less)

map_value_at_max_node_to_link(g, c, v, o, fresh) ==
    ValueAtExtremeNode(g, c, v, o, fresh, Greater)

\* lines 546-553
map_node_to_cell(g, v, o, fresh) ==
    LET t == TakeAt(v, g.node_at_cell)
    IN  IF ~t.ok THEN Raised("IndexError", o) ELSE Write(o, fresh, ToFloat(t.v))

\* lines 608-613 and 671-676: values_at_linksX, the link values followed by
\* the extra entry; values_at_linksX[:-1] = var_name broadcasts a single value
ValuesAtLinksX(g, v, extra) ==
    IF Len(v) \notin {g.number_of_links, 1} THEN [ok |-> FALSE, v |-> <<>>]
    ELSE [ok |-> TRUE,
          v |-> [k \in 1..(g.number_of_links + 1) |->
                    IF k > g.number_of_links THEN extra
                    ELSE IF Len(v) = 1 THEN v[1] ELSE v[k]]]

\* lines 605-616
map_min_of_node_links_to_node(g, v, o, fresh) ==
    LET x == ValuesAtLinksX(g, v, FloatMax)
    IN  IF ~x.ok THEN Raised("ValueError", o)
        ELSE LET t == TakeTable(x.v, g.links_at_node)
             IN  Write(o, fresh, [n \in DOMAIN t.v |-> Frac(RowMin(t.v[n]), 1)])

\* lines 668-679
map_max_of_node_links_to_node(g, v, o, fresh) ==
    LET x == ValuesAtLinksX(g, v, 0 - FloatMax)
    IN  IF ~x.ok THEN Raised("ValueError", o)
        ELSE LET t == TakeTable(x.v, g.links_at_node)
             IN  Write(o, fresh, [n \in DOMAIN t.v |-> Frac(RowMax(t.v[n]), 1)])

\* var_name[grid.links_at_node] * grid.link_dirs_at_node (lines 744, 813,
\* 883, 957, 1041, 1125), times sign
SignedValuesAtLinks(g, v, sign) ==
    LET t == TakeTable(v, g.links_at_node)
    IN  IF ~t.ok THEN t
        ELSE [ok |-> TRUE,
              v |-> [n \in DOMAIN t.v |->
                        [j \in DOMAIN t.v[n] |->
                            sign * t.v[n][j] * g.link_dirs_at_node[n][j]]]]

\* lines 739-748
map_upwind_node_link_max_to_node(g, v, o, fresh) ==
    LET s == SignedValuesAtLinks(g, v, -1)
    IN  IF ~s.ok THEN Raised("IndexError", o)
        ELSE Write(o, fresh, [n \in DOMAIN s.v |-> Frac(RowMax(s.v[n]), 1)])

\* lines 808-818
map_downwind_node_link_max_to_node(g, v, o, fresh) ==
    LET s == SignedValuesAtLinks(g, v, 1)
    IN  IF ~s.ok THEN Raised("IndexError", o)
        ELSE Write(o, fresh, [n \in DOMAIN s.v |-> Frac(Abs(RowMax(s.v[n])), 1)])

\* a mean that counts every entry of the row
MeanOfWholeRow(row) ==
    LET above == [j \in DOMAIN row |-> IF row[j] > 0 THEN 1 ELSE 0]
    IN  Frac(SumSeq([j \in DOMAIN row |-> row[j] * above[j]]), Len(row))

\* lines 885-890 and 959-964: the mean of the entries above zero; 0 / 0
\* gives nan, which line 890 (964) replaces by 0
MeanAboveZero(row) ==
    LET above == [j \in DOMAIN row |-> IF row[j] > 0 THEN 1 ELSE 0]
        total == SumSeq([j \in DOMAIN row |-> row[j] * above[j]])
        count == SumSeq(above)
    IN  IF count = 0 THEN Frac(0, 1) ELSE Frac(total, count)

\* lines 878-892
map_upwind_node_link_mean_to_node(g, v, o, fresh) ==
    LET s == SignedValuesAtLinks(g, v, -1)
    IN  IF ~s.ok THEN Raised("IndexError", o)
        ELSE Write(o, fresh, [n \in DOMAIN s.v |-> MeanAboveZero(s.v[n])])

\* lines 952-966
map_downwind_node_link_mean_to_node(g, v, o, fresh) ==
    LET s == SignedValuesAtLinks(g, v, 1)
    IN  IF ~s.ok THEN Raised("IndexError", o)
        ELSE Write(o, fresh, [n \in DOMAIN s.v |-> MeanAboveZero(s.v[n])])

\* lines 1041-1048 and 1125-1132, with sign -1 for upwind and 1 for
\* downwind: the value on the link with the largest signed control value,
\* 0 where that control value is not above zero
ValueAtSteepestLink(g, c, v, o, fresh, sign) ==
    LET s == SignedValuesAtLinks(g, c, sign)
    IN  IF ~s.ok THEN Raised("IndexError", o)
        ELSE LET t == TakeTable(v, g.links_at_node)
             IN  IF ~t.ok THEN Raised("IndexError", o)
                 ELSE Write(o, fresh,
                        [n \in DOMAIN s.v |->
                            LET which_link == ArgMax(s.v[n])
                            IN  Frac(IF s.v[n][which_link] <= 0 THEN 0
                                     ELSE t.v[n][which_link], 1)])

\* lines 1034-1050
map_value_at_upwind_node_link_max_to_node(g, c, v, o, fresh) ==
    ValueAtSteepestLink(g, c, v, o, fresh, -1)

\* lines 1118-1134
map_value_at_downwind_node_link_max_to_node(g, c, v, o, fresh) ==
    ValueAtSteepestLink(g, c, v, o, fresh, 1)

\* the arrays a caller passes -----------------------------------------------

\* a node field with the node ids as values
NodeIdField(n) == [k \in 1..n |-> k - 1]

\* the node ids row by row, every other row from right to left
Serpentine(g) ==
    LET nc == g.shape[2]
    IN  [k \in 1..g.number_of_nodes |->
            LET r == (k - 1) \div nc
                c == (k - 1) % nc
            IN  IF r % 2 = 1 THEN r * nc + (nc - 1 - c) ELSE k - 1]

\* node fields of the right length, and of a wrong one
NodeFields(g) == {NodeIdField(g.number_of_nodes), Serpentine(g)}

\* a valley along the second column: a field with equal values at both
\* ends of the links along a column, falling along the first link of a
\* row and rising along the others
ValleyField(g) == [k \in 1..g.number_of_nodes |-> Abs(((k - 1) % g.shape[2]) - 1)]

\* the control fields of the two-field node mappers
ControlNodeFields(g) == NodeFields(g) \cup {ValleyField(g)}

WrongNodeFields(g) ==
    {NodeIdField(n) : n \in {g.number_of_nodes - 1, g.number_of_nodes + 1}} \cup {<<5>>}

\* link fields: the link ids, values of both signs, and a gradient along
\* the rows only
LinkFields(g) ==
    {[k \in 1..g.number_of_links |-> k - 1],
     [k \in 1..g.number_of_links |-> ((k - 1) % 3) - 1],
     [k \in 1..g.number_of_links |->
         IF IsHorizontalLink(k - 1, g.shape[2])
         THEN 0 - (1 + (((k - 1) % LinksPerRow(g.shape[2])) % 2))
         ELSE 0]}

WrongLinkFields(g) ==
    {NodeIdField(n) : n \in {g.number_of_links - 1, g.number_of_links + 1}} \cup {<<5>>}

\* <<control, value>> pairs: one of the two may have a wrong length
FieldPairs(right, wrong, n) ==
    {<<c, v>> : c \in right, v \in {NodeIdField(n)} \cup wrong}
      \cup {<<c, NodeIdField(n)>> : c \in wrong}

MapperNames ==
    [node_to_link |-> {"map_link_head_node_to_link", "map_link_tail_node_to_link",
                       "map_min_of_link_nodes_to_link", "map_max_of_link_nodes_to_link",
                       "map_mean_of_link_nodes_to_link"},
     node_to_cell |-> {"map_node_to_cell"},
     link_to_node |-> {"map_min_of_node_links_to_node", "map_max_of_node_links_to_node",
                       "map_upwind_node_link_max_to_node",
                       "map_downwind_node_link_max_to_node",
                       "map_upwind_node_link_mean_to_node",
                       "map_downwind_node_link_mean_to_node"},
     node_pair_to_link |-> {"map_value_at_min_node_to_link",
                            "map_value_at_max_node_to_link"},
     link_pair_to_node |-> {"map_value_at_upwind_node_link_max_to_node",
                            "map_value_at_downwind_node_link_max_to_node"}]

\* the call name(grid, v, out=o)
ApplyMapper(name, g, v, o, fresh) ==
    CASE name = "map_link_head_node_to_link" -> map_link_head_node_to_link(g, v, o, fresh)
      [] name = "map_link_tail_node_to_link" -> map_link_tail_node_to_link(g, v, o, fresh)
      [] name = "map_min_of_link_nodes_to_link" -> map_min_of_link_nodes_to_link(g, v, o, fresh)
      [] name = "map_max_of_link_nodes_to_link" -> map_max_of_link_nodes_to_link(g, v, o, fresh)
      [] name = "map_mean_of_link_nodes_to_link" -> map_mean_of_link_nodes_to_link(g, v, o, fresh)
      [] name = "map_node_to_cell" -> map_node_to_cell(g, v, o, fresh)
      [] name = "map_min_of_node_links_to_node" -> map_min_of_node_links_to_node(g, v, o, fresh)
      [] name = "map_max_of_node_links_to_node" -> map_max_of_node_links_to_node(g, v, o, fresh)
      [] name = "map_upwind_node_link_max_to_node" ->
             map_upwind_node_link_max_to_node(g, v, o, fresh)
      [] name = "map_downwind_node_link_max_to_node" ->
             map_downwind_node_link_max_to_node(g, v, o, fresh)
      [] name = "map_upwind_node_link_mean_to_node" ->
             map_upwind_node_link_mean_to_node(g, v, o, fresh)
      [] name = "map_downwind_node_link_mean_to_node" ->
             map_downwind_node_link_mean_to_node(g, v, o, fresh)

\* the call name(grid, c, v, out=o)
ApplyPairMapper(name, g, c, v, o, fresh) ==
    CASE name = "map_value_at_min_node_to_link" ->
             map_value_at_min_node_to_link(g, c, v, o, fresh)
      [] name = "map_value_at_max_node_to_link" ->
             map_value_at_max_node_to_link(g, c, v, o, fresh)
      [] name = "map_value_at_upwind_node_link_max_to_node" ->
             map_value_at_upwind_node_link_max_to_node(g, c, v, o, fresh)
      [] name = "map_value_at_downwind_node_link_max_to_node" ->
             map_value_at_downwind_node_link_max_to_node(g, c, v, o, fresh)

\* a call of a one-field mapper whose result has n elements, with a value
\* array from fields
MapperCall(name, fields, n) ==
    /\ last_op.name \in {"none", name}
    /\ \E v \in fields, o \in OutArguments(n) :
       \E fresh \in (IF o.given THEN {<<>>} ELSE Empty(n)) :
          LET r == ApplyMapper(name, grid, v, o, fresh)
          IN  /\ var_name' = v
              /\ out' = r.out
              /\ last_op' = OpRecord(name, [var_name |-> v, out |-> o], r)
    /\ UNCHANGED <<grid, active_link_flux, control_name, value_name>>

\* a call of a two-field mapper
PairMapperCall(name, pairs, n) ==
    /\ last_op.name \in {"none", name}
    /\ \E p \in pairs, o \in OutArguments(n) :
       \E fresh \in (IF o.given THEN {<<>>} ELSE Empty(n)) :
          LET r == ApplyPairMapper(name, grid, p[1], p[2], o, fresh)
          IN  /\ control_name' = p[1]
              /\ value_name' = p[2]
              /\ out' = r.out
              /\ last_op' = OpRecord(name, [control_name |-> p[1], value_name |-> p[2],
                                            out |-> o], r)
    /\ UNCHANGED <<grid, active_link_flux, var_name>>

MapNodeToLink ==
    \E name \in MapperNames.node_to_link :
        MapperCall(name, NodeFields(grid) \cup WrongNodeFields(grid), grid.number_of_links)

MapNodeToCell ==
    \E name \in MapperNames.node_to_cell :
        MapperCall(name, NodeFields(grid) \cup WrongNodeFields(grid), Len(grid.node_at_cell))

MapLinkToNode ==
    \E name \in MapperNames.link_to_node :
        MapperCall(name, LinkFields(grid) \cup WrongLinkFields(grid), grid.number_of_nodes)

MapNodePairToLink ==
    \E name \in MapperNames.node_pair_to_link :
        PairMapperCall(name,
                       FieldPairs(ControlNodeFields(grid), WrongNodeFields(grid),
                                  grid.number_of_nodes)
                         \cup {<<c, c>> : c \in ControlNodeFields(grid)},
                       grid.number_of_links)

MapLinkPairToNode ==
    \E name \in MapperNames.link_pair_to_node :
        PairMapperCall(name,
                       FieldPairs(LinkFields(grid), WrongLinkFields(grid), grid.number_of_links),
                       grid.number_of_nodes)

OperatorsInit ==
    /\ grid \in Grids
    /\ active_link_flux = <<>>
    /\ var_name = <<>>
    /\ control_name = <<>>
    /\ value_name = <<>>
    /\ out = None
    /\ last_op = NoOp

InitOperators == OperatorsInit /\ CtorOff /\ LinksOff /\ ReoOff /\ CellsOff /\ PatchesOff /\ LenOff /\ GeomOff

NextOperators ==
    \/ CalculateFluxDivergenceAtNodes
          /\ UNCHANGED <<lenVars, geomVars, ctorVars, attrVars, nodeVars, linkVars, reoVars, cellVars, statusVars, meshVars, patchVars>>
    \/ MapNodeToLink
          /\ UNCHANGED <<lenVars, geomVars, ctorVars, attrVars, nodeVars, linkVars, reoVars, cellVars, statusVars, meshVars, patchVars>>
    \/ MapNodeToCell
          /\ UNCHANGED <<lenVars, geomVars, ctorVars, attrVars, nodeVars, linkVars, reoVars, cellVars, statusVars, meshVars, patchVars>>
    \/ MapLinkToNode
          /\ UNCHANGED <<lenVars, geomVars, ctorVars, attrVars, nodeVars, linkVars, reoVars, cellVars, statusVars, meshVars, patchVars>>
    \/ MapNodePairToLink
          /\ UNCHANGED <<lenVars, geomVars, ctorVars, attrVars, nodeVars, linkVars, reoVars, cellVars, statusVars, meshVars, patchVars>>
    \/ MapLinkPairToNode
          /\ UNCHANGED <<lenVars, geomVars, ctorVars, attrVars, nodeVars, linkVars, reoVars, cellVars, statusVars, meshVars, patchVars>>

SpecOperators == InitOperators /\ [][NextOperators]_vars

-----------------------------------------------------------------------------
(* Claims about flux divergence *)

FluxCalled == last_op.name = "calculate_flux_divergence_at_nodes"

FluxReturned == FluxCalled /\ last_op.outcome = "ok"

NodeIds(g) == 0..(g.number_of_nodes - 1)

HasCell(g, n) == \E c \in DOMAIN g.node_at_cell : g.node_at_cell[c] = n

RECURSIVE SumOver(_, _)
SumOver(S, fn) ==
    IF S = {} THEN 0
    ELSE LET x == CHOOSE x \in S : TRUE
         IN  fn[x] + SumOver(S \ {x}, fn)

\* the positions in the active-link arrays of the active links whose tail
\* (head) is node n, read from the link end arrays
ActiveLeaving(g, n) ==
    {k \in 1..Len(g.active_links) : g.node_at_link_tail[g.active_links[k] + 1] = n}

ActiveEntering(g, n) ==
    {k \in 1..Len(g.active_links) : g.node_at_link_head[g.active_links[k] + 1] = n}

\* sum of flux times face width over the active-link positions in S
FaceFlux(g, f, S) == SumOver(S, [k \in 1..Len(f) |-> f[k] * g.face_width[k]])

\* sum of the face widths over the active-link positions in S
TotalWidth(g, S) == SumOver(S, g.face_width)

\* C14: the result is 0 at every node that has no cell, whatever the flux
\* array, also where the node has active links.
C14_ZeroWithoutCell ==
    FluxReturned
      => \A n \in NodeIds(grid) :
            ~HasCell(grid, n) => last_op.value[n + 1] = Frac(0, 1)

\* C15: at the node of every cell the result is the flux times face width
\* summed over the active links leaving the node, minus that summed over
\* the active links entering it, divided by the area of the cell.
C15_NetEffluxPerArea ==
    FluxReturned
      => \A c \in DOMAIN grid.node_at_cell :
            LET n == grid.node_at_cell[c]
                f == last_op.before.active_link_flux
            IN  last_op.value[n + 1] =
                    Frac(FaceFlux(grid, f, ActiveLeaving(grid, n))
                           - FaceFlux(grid, f, ActiveEntering(grid, n)),
                         grid.area_of_cell[c])

\* a call returned a positive value at one core node, a negative one at
\* another, on a grid whose cells have area 2 and where a core node has
\* fewer active links than the matrices have rows
C15_Witness ==
    /\ FluxReturned
    /\ \E c \in DOMAIN grid.area_of_cell : grid.area_of_cell[c] = 2
    /\ \E n \in NodeIds(grid) :
          HasCell(grid, n) /\ last_op.value[n + 1][1] > 0 /\ last_op.value[n + 1][2] = 2
    /\ \E n \in NodeIds(grid) : HasCell(grid, n) /\ last_op.value[n + 1][1] < 0
    /\ \E n \in NodeIds(grid) : HasCell(grid, n) /\ ActiveEntering(grid, n) = {}

\* every boundary node is closed
FullyClosed(g) ==
    \A n \in NodeIds(g) : g.status_at_node[n + 1] \in {CORE_NODE, CLOSED_BOUNDARY}

\* the same flux value v on every active link
UniformFlux(f, v) == Len(f) > 0 /\ \A k \in 1..Len(f) : f[k] = v

\* C16 as the specification states it: with a uniform flux and every
\* boundary node closed the result is exactly 0 at every core node.
C16_AsStated ==
    (/\ FluxReturned
     /\ FullyClosed(grid)
     /\ \E v \in (0 - MaxFlux - 1)..(MaxFlux + 1) :
           UniformFlux(last_op.before.active_link_flux, v))
      => \A n \in NodeIds(grid) :
            HasCell(grid, n) => last_op.value[n + 1] = Frac(0, 1)

\* C16: with the same flux v on every active link and every boundary node
\* closed, the result at the node of a cell is v times (the total face
\* width of the active links leaving the node minus that of the active
\* links entering it) divided by the cell area: 0 exactly when v is 0 or
\* the two widths are equal, and not 0 at a core node that has lost more
\* width on one side to the closed boundary.
C16_UniformFluxClosedBoundary ==
    \A v \in (0 - MaxFlux - 1)..(MaxFlux + 1) :
        (/\ FluxReturned
         /\ FullyClosed(grid)
         /\ UniformFlux(last_op.before.active_link_flux, v))
          => \A c \in DOMAIN grid.node_at_cell :
                LET n == grid.node_at_cell[c]
                    wout == TotalWidth(grid, ActiveLeaving(grid, n))
                    win  == TotalWidth(grid, ActiveEntering(grid, n))
                IN  /\ last_op.value[n + 1] = Frac(v * (wout - win), grid.area_of_cell[c])
                    /\ last_op.value[n + 1] = Frac(0, 1) <=> (v = 0 \/ wout = win)

\* uniform flux 1 on a fully closed lattice: 0 at a core node between two
\* core nodes, 1/2 or -1/2 at a core node with a core node on one side only
C16_Witness ==
    /\ FluxReturned
    /\ FullyClosed(grid)
    /\ UniformFlux(last_op.before.active_link_flux, 1)
    /\ \E n \in NodeIds(grid) :
          /\ HasCell(grid, n)
          /\ ActiveEntering(grid, n) # {}
          /\ last_op.value[n + 1] = Frac(0, 1)
    /\ \E n \in NodeIds(grid) :
          /\ HasCell(grid, n)
          /\ last_op.value[n + 1][1] # 0
          /\ last_op.value[n + 1][2] = 2

\* C17: a call whose flux array is not as long as the number of active
\* links, or whose out buffer is not as long as the number of nodes, fails
\* on the assertion and returns nothing.
C17_WrongSizeFails ==
    (/\ FluxCalled
     /\ \/ Len(last_op.before.active_link_flux) # grid.number_of_active_links
        \/ /\ last_op.before.out.given
           /\ Len(last_op.before.out.a) # grid.number_of_nodes)
      => /\ last_op.outcome = "AssertionError"
         /\ last_op.value = <<>>
         /\ ~last_op.is_out

\* a call with a flux array as long as the number of links, and a call with
\* the right flux array and an out buffer one element short, have failed
C17_Witness ==
    /\ FluxCalled
    /\ last_op.outcome = "AssertionError"
    /\ \/ Len(last_op.before.active_link_flux) = grid.number_of_links
       \/ /\ Len(last_op.before.active_link_flux) = grid.number_of_active_links
          /\ last_op.before.out.given
          /\ Len(last_op.before.out.a) = grid.number_of_nodes - 1

-----------------------------------------------------------------------------
(* Claims about the mapping functions and about all operators *)

NodeToLinkMappers == MapperNames.node_to_link \cup MapperNames.node_pair_to_link

LinkToNodeMappers == MapperNames.link_to_node \cup MapperNames.link_pair_to_node

PairMappers == MapperNames.node_pair_to_link \cup MapperNames.link_pair_to_node

\* the value arrays of the latest mapper call
ValueArrays ==
    IF last_op.name \in PairMappers
    THEN {last_op.before.control_name, last_op.before.value_name}
    ELSE {last_op.before.var_name}

\* C18: a mapper call with a value array of a wrong length (node values not
\* as many as the nodes for a node-to-link mapper, link values not as many
\* as the links for a link-to-node mapper, a single value included) raises
\* and returns no result.
C18_WrongSizeRejected ==
    /\ (/\ last_op.name \in NodeToLinkMappers
        /\ \E a \in ValueArrays : Len(a) # grid.number_of_nodes)
         => last_op.outcome # "ok"
    /\ (/\ last_op.name \in LinkToNodeMappers
        /\ \E a \in ValueArrays : Len(a) # grid.number_of_links)
         => last_op.outcome # "ok"

\* what the latest call returns when it is made with no out buffer on
\* memory holding zeros
ResultWithoutBuffer ==
    LET b == last_op.before
        z == Filled(Len(last_op.value), 0)
    IN  IF FluxCalled
        THEN calculate_flux_divergence_at_nodes(grid, b.active_link_flux, None, z)
        ELSE IF last_op.name \in PairMappers
        THEN ApplyPairMapper(last_op.name, grid, b.control_name, b.value_name, None, z)
        ELSE ApplyMapper(last_op.name, grid, b.var_name, None, z)

MapperReturned(name) ==
    /\ last_op.name = name
    /\ last_op.outcome = "ok"
    /\ Len(last_op.before.var_name) = grid.number_of_nodes

Numerators(a) == [k \in DOMAIN a |-> a[k][1]]

\* C20: the 3 x 4 lattice has 17 links, and with z = [0, 1, ..., 11] the
\* head mapper yields [1,2,3,4,5,6,7,5,6,7,8,9,10,11,9,10,11] and the tail
\* mapper [0,1,2,0,1,2,3,4,5,6,4,5,6,7,8,9,10]; on every grid the head
\* (tail) mapper returns at link l the node value at the head (tail) node
\* of l.
C20_HeadAndTailValues ==
    /\ (last_op.name # "none" /\ grid.shape = <<3, 4>>) => grid.number_of_links = 17
    /\ MapperReturned("map_link_head_node_to_link")
         => /\ Len(last_op.value) = grid.number_of_links
            /\ \A l \in 1..grid.number_of_links :
                  last_op.value[l] =
                      Frac(last_op.before.var_name[grid.node_at_link_head[l] + 1], 1)
            /\ (grid.shape = <<3, 4>> /\ last_op.before.var_name = NodeIdField(12))
                  => Numerators(last_op.value)
                       = <<1, 2, 3, 4, 5, 6, 7, 5, 6, 7, 8, 9, 10, 11, 9, 10, 11>>
    /\ MapperReturned("map_link_tail_node_to_link")
         => /\ Len(last_op.value) = grid.number_of_links
            /\ \A l \in 1..grid.number_of_links :
                  last_op.value[l] =
                      Frac(last_op.before.var_name[grid.node_at_link_tail[l] + 1], 1)
            /\ (grid.shape = <<3, 4>> /\ last_op.before.var_name = NodeIdField(12))
                  => Numerators(last_op.value)
                       = <<0, 1, 2, 0, 1, 2, 3, 4, 5, 6, 4, 5, 6, 7, 8, 9, 10>>

\* the head mapper has returned for z = [0, 1, ..., 11] on the 3 x 4
\* lattice with unit spacing
C20_Witness ==
    /\ MapperReturned("map_link_head_node_to_link")
    /\ grid.shape = <<3, 4>>
    /\ \A k \in DOMAIN grid.face_width : grid.face_width[k] = 1
    /\ last_op.before.var_name = NodeIdField(12)
    /\ Len(last_op.value) = 17

-----------------------------------------------------------------------------
(* Claims about the minimum, maximum and mean of a link's end nodes *)

\* a <= b for two fractions with positive denominators
FracLeq(a, b) == a[1] * b[2] <= b[1] * a[2]

HeadValue(l) == last_op.before.var_name[grid.node_at_link_head[l] + 1]

TailValue(l) == last_op.before.var_name[grid.node_at_link_tail[l] + 1]

SmallerEnd(l) == IF TailValue(l) < HeadValue(l) THEN TailValue(l) ELSE HeadValue(l)

LargerEnd(l) == IF TailValue(l) > HeadValue(l) THEN TailValue(l) ELSE HeadValue(l)

\* C21: map_min_of_link_nodes_to_link returns min(z[tail(l)], z[head(l)])
\* and map_max_of_link_nodes_to_link max(z[tail(l)], z[head(l)]) at every
\* link l, the mean mapper's value lies between the two, and on the 3 x 4
\* lattice with z = [[0,1,2,3],[7,6,5,4],[8,9,10,11]] they yield
\* [0,1,2,0,1,2,3,6,5,4,7,6,5,4,8,9,10] and
\* [1,2,3,7,6,5,4,7,6,5,8,9,10,11,9,10,11].
C21_MinAndMaxOfLinkNodes ==
    /\ MapperReturned("map_min_of_link_nodes_to_link")
         => /\ Len(last_op.value) = grid.number_of_links
            /\ \A l \in 1..grid.number_of_links :
                  last_op.value[l] = Frac(SmallerEnd(l), 1)
            /\ (grid.shape = <<3, 4>> /\ last_op.before.var_name = Serpentine(grid))
                  => Numerators(last_op.value)
                       = <<0, 1, 2, 0, 1, 2, 3, 6, 5, 4, 7, 6, 5, 4, 8, 9, 10>>
    /\ MapperReturned("map_max_of_link_nodes_to_link")
         => /\ Len(last_op.value) = grid.number_of_links
            /\ \A l \in 1..grid.number_of_links :
                  last_op.value[l] = Frac(LargerEnd(l), 1)
            /\ (grid.shape = <<3, 4>> /\ last_op.before.var_name = Serpentine(grid))
                  => Numerators(last_op.value)
                       = <<1, 2, 3, 7, 6, 5, 4, 7, 6, 5, 8, 9, 10, 11, 9, 10, 11>>
    /\ MapperReturned("map_mean_of_link_nodes_to_link")
         => /\ Len(last_op.value) = grid.number_of_links
            /\ \A l \in 1..grid.number_of_links :
                  /\ last_op.value[l] = Frac(TailValue(l) + HeadValue(l), 2)
                  /\ FracLeq(Frac(SmallerEnd(l), 1), last_op.value[l])
                  /\ FracLeq(last_op.value[l], Frac(LargerEnd(l), 1))

\* the minimum mapper has returned for the field of the scenario on the
\* 3 x 4 lattice, with a link whose head node holds the larger value and
\* one whose tail node does
C21_Witness ==
    /\ MapperReturned("map_min_of_link_nodes_to_link")
    /\ grid.shape = <<3, 4>>
    /\ last_op.before.var_name = Serpentine(grid)
    /\ Len(last_op.value) = 17
    /\ \E l \in 1..17 : HeadValue(l) > TailValue(l)
    /\ \E l \in 1..17 : HeadValue(l) < TailValue(l)

-----------------------------------------------------------------------------
(* Claims about the upwind and downwind mappers *)

LinkMapperReturned(name) ==
    /\ last_op.name = name
    /\ last_op.outcome = "ok"
    /\ Len(last_op.before.var_name) = grid.number_of_links

\* the value of the latest call's link field on the j-th link of node n
LinkValue(n, j) == last_op.before.var_name[grid.links_at_node[n + 1][j] + 1]

\* the places in the link row of node n whose link brings flux into the
\* node (sign = -1) or carries flux out of it (sign = 1): the link value
\* times the link's direction at the node has the sign of `sign`
FluxLinks(n, sign) ==
    {j \in DOMAIN grid.links_at_node[n + 1] :
        /\ grid.links_at_node[n + 1][j] # -1
        /\ sign * LinkValue(n, j) * grid.link_dirs_at_node[n + 1][j] > 0}

Magnitude(x) == IF x < 0 THEN 0 - x ELSE x

LargestMagnitude(n, sign) ==
    IF FluxLinks(n, sign) = {} THEN 0
    ELSE CHOOSE m \in {Magnitude(LinkValue(n, j)) : j \in FluxLinks(n, sign)} :
            \A j \in FluxLinks(n, sign) : Magnitude(LinkValue(n, j)) <= m

\* the link row of node n has no padding
FullRow(n) == \A j \in DOMAIN grid.links_at_node[n + 1] : grid.links_at_node[n + 1][j] # -1

\* C22: map_upwind_node_link_max_to_node returns at every node the largest
\* magnitude of the link values on the links bringing flux into the node,
\* map_downwind_node_link_max_to_node the largest magnitude on the links
\* carrying flux out of it, and zero at a node without such a link, a node
\* with a full link row included.
C22_LargestMagnitudeOrZero ==
    /\ LinkMapperReturned("map_upwind_node_link_max_to_node")
         => \A n \in NodeIds(grid) : last_op.value[n + 1] = Frac(LargestMagnitude(n, -1), 1)
    /\ LinkMapperReturned("map_downwind_node_link_max_to_node")
         => \A n \in NodeIds(grid) : last_op.value[n + 1] = Frac(LargestMagnitude(n, 1), 1)


\* the mean of the magnitudes of the link values on the links that bring
\* flux into node n (sign = -1) or carry flux out of it (sign = 1)
MeanMagnitude(n, sign) ==
    LET S == FluxLinks(n, sign)
        mags == [j \in DOMAIN grid.links_at_node[n + 1] |->
                    IF j \in S THEN Magnitude(LinkValue(n, j)) ELSE 0]
    IN  IF S = {} THEN Frac(0, 1) ELSE Frac(SumOver(S, mags), Cardinality(S))

\* C23: map_upwind_node_link_mean_to_node (map_downwind_node_link_mean_to_node)
\* returns at every node the arithmetic mean of the magnitudes of the link
\* values on the links bringing flux into (carrying flux out of) the node;
\* links with value zero, links carrying flux the other way and padding
\* entries are in neither the sum nor the count, and the result is 0 when
\* no link qualifies.
C23_MeanOfQualifyingLinks ==
    /\ LinkMapperReturned("map_upwind_node_link_mean_to_node")
         => \A n \in NodeIds(grid) : last_op.value[n + 1] = MeanMagnitude(n, -1)
    /\ LinkMapperReturned("map_downwind_node_link_mean_to_node")
         => \A n \in NodeIds(grid) : last_op.value[n + 1] = MeanMagnitude(n, 1)

\* the upwind mean mapper has returned on a grid with a node of full link
\* row that has two qualifying links of different magnitude and a link
\* carrying flux the other way, a node with a padded row and a link of
\* value zero, and a node where no link qualifies
C23_Witness ==
    /\ LinkMapperReturned("map_upwind_node_link_mean_to_node")
    /\ \E n \in NodeIds(grid) :
          /\ FullRow(n)
          /\ \E i, j \in FluxLinks(n, -1) : Magnitude(LinkValue(n, i)) # Magnitude(LinkValue(n, j))
          /\ \E j \in FluxLinks(n, 1) : TRUE
          /\ last_op.value[n + 1] = MeanMagnitude(n, -1)
          /\ last_op.value[n + 1][2] = 2
    /\ \E n \in NodeIds(grid) :
          /\ \E j \in DOMAIN grid.links_at_node[n + 1] :
                grid.links_at_node[n + 1][j] # -1 /\ LinkValue(n, j) = 0
          /\ \E j \in DOMAIN grid.links_at_node[n + 1] : grid.links_at_node[n + 1][j] = -1
    /\ \E n \in NodeIds(grid) :
          FluxLinks(n, -1) = {} /\ last_op.value[n + 1] = Frac(0, 1)

-----------------------------------------------------------------------------
(* Link lengths: VoronoiDelaunayGrid._initialize, lines 241-251, on the
   links of a 3 x 3 lattice.  The links arrive in any order and direction,
   are sorted by midpoint, reoriented when reorient_links is set, and then
   measured. *)

\* <<row spacing, column spacing>>
LatticeSpacings == {<<1, 1>>, <<3, 4>>}

\* the lattice points in node order (by y, then x)
LatticePts(sp) == [k \in 1..9 |-> <<sp[2] * LatticeX[k], sp[1] * LatticeY[k]>>]

\* numpy.sqrt(n): the non-negative number whose square is n, kept exact
NumpySqrt(n) == [squared |-> n]

\* lengths that measure along x only
LengthsAlongX(p, link_from, link_to) ==
    [k \in DOMAIN link_from |->
        LET dx == p[link_to[k] + 1][1] - p[link_from[k] + 1][1]
        IN  NumpySqrt(dx * dx)]

\* lines 86-89
calculate_link_lengths(p, link_from, link_to) ==
    [k \in DOMAIN link_from |->
        LET dx == p[link_to[k] + 1][1] - p[link_from[k] + 1][1]
            dy == p[link_to[k] + 1][2] - p[link_from[k] + 1][2]
        IN  NumpySqrt(dx * dx + dy * dy)]

LengthsInit ==
    /\ len_pc = "links"
    /\ reorient_links \in BOOLEAN
    /\ \E sp \in LatticeSpacings : pts = LatticePts(sp)
    /\ node_x = Column(pts, 1)
    /\ node_y = Column(pts, 2)
    /\ in_x = node_x
    /\ in_y = node_y
    /\ ctor_pc = "constructed"
    /\ attrs = {"pts", "_node_x", "_node_y"}
    /\ \E ls \in SeqsUpTo(LinkPool, MaxLinks) :
          /\ node_at_link_tail = Column(ls, 1)
          /\ node_at_link_head = Column(ls, 2)
    /\ reo_pc = 0
    /\ prev_tail = <<>>
    /\ prev_head = <<>>
    /\ link_length = <<>>

\* line 242: self.sort_links_by_midpoint()
SortLinksStep ==
    /\ len_pc = "links"
    /\ LET r == sort_links_by_midpoint(pts, node_at_link_tail, node_at_link_head)
       IN  /\ node_at_link_tail' = r.link_fromnode
           /\ node_at_link_head' = r.link_tonode
    /\ len_pc' = "sorted"
    /\ UNCHANGED <<reo_pc, prev_tail, prev_head, reorient_links, link_length, nodeVars>>

\* lines 246-247: if reorient_links: self.reorient_links_upper_right()
ReorientStep ==
    /\ len_pc = "sorted"
    /\ reorient_links
    /\ ReorientLinksUpperRight
    /\ len_pc' = "reoriented"
    /\ UNCHANGED <<reorient_links, link_length>>

\* lines 249-251
CalculateLinkLengths ==
    /\ \/ len_pc = "reoriented"
       \/ len_pc = "sorted" /\ ~reorient_links
    /\ link_length' = calculate_link_lengths(pts, node_at_link_tail, node_at_link_head)
    /\ len_pc' = "measured"
    /\ UNCHANGED <<reorient_links, reoVars, nodeVars>>

InitLengths == LengthsInit /\ LinksOff /\ CellsOff /\ PatchesOff /\ OpsOff /\ GeomOff

NextLengths ==
    \/ SortLinksStep /\ UNCHANGED <<opVars, geomVars, ctorVars, attrVars, linkVars, cellVars, statusVars, meshVars, patchVars>>
    \/ ReorientStep /\ UNCHANGED <<opVars, geomVars, ctorVars, attrVars, linkVars, cellVars, statusVars, meshVars, patchVars>>
    \/ CalculateLinkLengths /\ UNCHANGED <<opVars, geomVars, ctorVars, attrVars, linkVars, cellVars, statusVars, meshVars, patchVars>>

SpecLengths == InitLengths /\ [][NextLengths]_vars

-----------------------------------------------------------------------------
(* Claims about link lengths *)

Measured == len_pc = "measured"

\* the squared distance between the end nodes of the link at position k of
\* the link arrays as they are now
SquaredDistance(k) ==
    LET t == node_at_link_tail[k] + 1
        h == node_at_link_head[k] + 1
    IN  (node_x[h] - node_x[t]) * (node_x[h] - node_x[t])
          + (node_y[h] - node_y[t]) * (node_y[h] - node_y[t])

\* the length k, as a value of link_length
Length(k) == NumpySqrt(k * k)

ColumnSpacing == node_x[2] - node_x[1]

RowSpacing == node_y[4] - node_y[1]

\* link position k joins neighbours of one lattice row (column)
AlongRow(k) ==
    /\ node_y[node_at_link_tail[k] + 1] = node_y[node_at_link_head[k] + 1]
    /\ Abs(node_at_link_tail[k] - node_at_link_head[k]) = 1

AlongColumn(k) ==
    /\ node_x[node_at_link_tail[k] + 1] = node_x[node_at_link_head[k] + 1]
    /\ Abs(node_at_link_tail[k] - node_at_link_head[k]) = 3

\* C24: link_length holds, for every link of the final (sorted and
\* reoriented) numbering, the Euclidean distance between its tail and head
\* node; indexing it with link ids gives the lengths of those links;
\* exchanging tails and heads gives the same lengths; on the lattice a link
\* between row neighbours has the column spacing as length and a link
\* between column neighbours the row spacing (1 with unit spacing, 4 and 3
\* with row spacing 3 and column spacing 4).
C24_LinkLengthIsDistance ==
    Measured
      => /\ Len(link_length) = Len(node_at_link_tail)
         /\ \A k \in DOMAIN link_length :
               /\ link_length[k] = NumpySqrt(SquaredDistance(k))
               /\ Take(link_length, <<k - 1>>) = <<NumpySqrt(SquaredDistance(k))>>
               /\ AlongRow(k) => link_length[k] = Length(ColumnSpacing)
               /\ AlongColumn(k) => link_length[k] = Length(RowSpacing)
               /\ (AlongRow(k) /\ pts = LatticePts(<<3, 4>>)) => link_length[k] = Length(4)
               /\ (AlongColumn(k) /\ pts = LatticePts(<<3, 4>>)) => link_length[k] = Length(3)
               /\ ((AlongRow(k) \/ AlongColumn(k)) /\ pts = LatticePts(<<1, 1>>))
                     => link_length[k] = Length(1)
         /\ calculate_link_lengths(pts, node_at_link_head, node_at_link_tail) = link_length

\* the lengths have been measured on the lattice with row spacing 3 and
\* column spacing 4 after the sort and a reorientation that flipped a link,
\* with one link along a row and one along a column
C24_Witness ==
    /\ Measured
    /\ pts = LatticePts(<<3, 4>>)
    /\ reo_pc = 1
    /\ Len(link_length) = 2
    /\ prev_tail # node_at_link_tail
    /\ \E k \in DOMAIN link_length : AlongRow(k) /\ link_length[k] = Length(4)
    /\ \E k \in DOMAIN link_length : AlongColumn(k) /\ link_length[k] = Length(3)

-----------------------------------------------------------------------------
(* Claims about the value at the end node with the smaller or larger
   control value *)

PairMapperReturned(name) ==
    /\ last_op.name = name
    /\ last_op.outcome = "ok"
    /\ Len(last_op.before.control_name) = grid.number_of_nodes
    /\ Len(last_op.before.value_name) = grid.number_of_nodes

ControlAtTail(l) == last_op.before.control_name[grid.node_at_link_tail[l] + 1]

ControlAtHead(l) == last_op.before.control_name[grid.node_at_link_head[l] + 1]

ValueAtTail(l) == last_op.before.value_name[grid.node_at_link_tail[l] + 1]

ValueAtHead(l) == last_op.before.value_name[grid.node_at_link_head[l] + 1]

\* C30: map_value_at_min_node_to_link (map_value_at_max_node_to_link)
\* returns at every link the value field at the end node with the strictly
\* smaller (larger) control value and the head node's value when the two
\* control values are equal; with the control field as value field the
\* result is that of map_min_of_link_nodes_to_link
\* (map_max_of_link_nodes_to_link) for the field.
C30_ValueAtExtremeNode ==
    /\ PairMapperReturned("map_value_at_min_node_to_link")
         => /\ \A l \in 1..grid.number_of_links :
                  last_op.value[l] =
                      Frac(IF ControlAtTail(l) < ControlAtHead(l)
                           THEN ValueAtTail(l) ELSE ValueAtHead(l), 1)
            /\ last_op.before.control_name = last_op.before.value_name
                  => last_op.value =
                       map_min_of_link_nodes_to_link(
                           grid, last_op.before.control_name, None,
                           Filled(grid.number_of_links, 0)).value
    /\ PairMapperReturned("map_value_at_max_node_to_link")
         => /\ \A l \in 1..grid.number_of_links :
                  last_op.value[l] =
                      Frac(IF ControlAtTail(l) > ControlAtHead(l)
                           THEN ValueAtTail(l) ELSE ValueAtHead(l), 1)
            /\ last_op.before.control_name = last_op.before.value_name
                  => last_op.value =
                       map_max_of_link_nodes_to_link(
                           grid, last_op.before.control_name, None,
                           Filled(grid.number_of_links, 0)).value

\* the minimum-node mapper has returned for a control field with a tie on
\* one link, a smaller tail on another and a smaller head on a third, and
\* a value field that differs at the two ends of the tied link
C30_Witness ==
    /\ PairMapperReturned("map_value_at_min_node_to_link")
    /\ \E l \in 1..grid.number_of_links :
          /\ ControlAtTail(l) = ControlAtHead(l)
          /\ ValueAtTail(l) # ValueAtHead(l)
          /\ last_op.value[l] = Frac(ValueAtHead(l), 1)
    /\ \E l \in 1..grid.number_of_links : ControlAtTail(l) < ControlAtHead(l)
    /\ \E l \in 1..grid.number_of_links : ControlAtTail(l) > ControlAtHead(l)

-----------------------------------------------------------------------------
(* Claims about failed calls *)

\* C29: when calculate_flux_divergence_at_nodes raises because the flux
\* array or the out buffer has a wrong length, the out buffer the caller
\* supplied holds what it held before the call.
C29_FailedCallLeavesBuffer ==
    (FluxCalled /\ last_op.outcome # "ok") => out = last_op.before.out

-----------------------------------------------------------------------------
(* Claims about the wrap of the link angle *)

\* the angle, clockwise from vertical, of link position k before the
\* latest call, with the 45 degree offset added: a value in (-135, 225]
OffsetAngle(k) == Arctan2Deg(Dx(prev_tail, prev_head, k), Dy(prev_tail, prev_head, k)) + 45

\* the latest call exchanged the ends of link position k
Swapped(k) ==
    /\ node_at_link_tail[k] = prev_head[k]
    /\ node_at_link_head[k] = prev_tail[k]

-----------------------------------------------------------------------------
(* RadialModelGrid (radial.py).  Coordinates are kept in thousandths,
   rounded; origins and the radial spacing are whole numbers. *)

\* a whole number in thousandths
Scaled(k) == 1000 * k

ShellCounts == {1, 2}

RadialSpacings == {1, 2, 3}

Origins == {-3, 0, 5}

\* numpy.round(twopi * shells), line 131
PointsInShell(shell) == IF shell = 1 THEN 6 ELSE 13

\* <<cos(theta), sin(theta)>> for theta = dtheta * k + dtheta / shell,
\* k = 0 .. n - 1, dtheta = twopi / n (lines 132, 138-140)
UnitCircle(shell) ==
    IF shell = 1
    THEN << <<500, 866>>, <<-500, 866>>, <<-1000, 0>>, <<-500, -866>>,
            <<500, -866>>, <<1000, 0>> >>
    ELSE << <<971, 239>>, <<749, 663>>, <<355, 935>>, <<-121, 993>>,
            <<-568, 823>>, <<-885, 465>>, <<-1000, 0>>, <<-885, -465>>,
            <<-568, -823>>, <<-121, -993>>, <<355, -935>>, <<749, -663>>,
            <<971, -239>> >>

\* numpy.roll(a, 1)
Roll(a) == IF a = <<>> THEN a ELSE <<a[Len(a)]>> \o SubSeq(a, 1, Len(a) - 1)

\* lines 138-153: the points of one shell; a shell whose last point lies
\* on the x axis starts with that point
ShellPoints(shell, dr) ==
    LET r == shell * dr
        c == [k \in 1..PointsInShell(shell) |->
                 <<r * UnitCircle(shell)[k][1], r * UnitCircle(shell)[k][2]>>]
    IN  IF c[Len(c)][2] = 0 THEN Roll(c) ELSE c

RECURSIVE ShellsFrom(_, _, _)
ShellsFrom(shell, num_shells, dr) ==
    IF shell > num_shells THEN <<>>
    ELSE ShellPoints(shell, dr) \o ShellsFrom(shell + 1, num_shells, dr)

\* make_radial_points, lines 122-158
make_radial_points(num_shells, dr, origin_x, origin_y) ==
    LET p == << <<0, 0>> >> \o ShellsFrom(1, num_shells, dr)
    IN  [k \in DOMAIN p |-> <<p[k][1] + Scaled(origin_x), p[k][2] + Scaled(origin_y)>>]

RadialInit ==
    /\ radial_args \in [num_shells : ShellCounts, dr : RadialSpacings,
                        origin_x : Origins, origin_y : Origins]
    /\ ctor_pc = "radial"
    /\ in_x = <<>>
    /\ in_y = <<>>
    /\ attrs = {}
    /\ pts = <<>>
    /\ node_x = <<>>
    /\ node_y = <<>>
    /\ vor_points = <<>>
    /\ tri_assert = "none"

\* RadialModelGrid.__init__ and _initialize, lines 103-120, up to the call
\* of VoronoiDelaunayGrid._initialize with the points as x and y
RadialInitialize ==
    /\ ctor_pc = "radial"
    /\ LET p == make_radial_points(radial_args.num_shells, radial_args.dr, 0, 0)
       IN  /\ in_x' = Column(p, 1)
           /\ in_y' = Column(p, 2)
    /\ ctor_pc' = "new"
    /\ UNCHANGED <<attrs, pts, node_x, node_y, geomVars>>

InitRadial == RadialInit /\ LinksOff /\ ReoOff /\ CellsOff /\ PatchesOff /\ OpsOff /\ LenOff

NextRadial ==
    \/ RadialInitialize /\ UNCHANGED <<opVars, lenVars, linkVars, reoVars, cellVars, statusVars, meshVars, patchVars>>
    \/ InitializeNodes /\ UNCHANGED <<opVars, lenVars, geomVars, linkVars, reoVars, cellVars, statusVars, meshVars, patchVars>>

SpecRadial == InitRadial /\ [][NextRadial]_vars

-----------------------------------------------------------------------------
(* Claims about radial grids *)

RadialConstructed == ctor_pc = "constructed" /\ radial_args # NoRadial

\* the node coordinates of the grid with the same shells and spacing and
\* origin (0, 0)
NodesAroundZero ==
    SortPointsByXThenY(make_radial_points(radial_args.num_shells, radial_args.dr, 0, 0))

\* C25: RadialModelGrid(num_shells, dr, origin_x, origin_y) has every node
\* at the coordinates it has in the grid built with origin (0, 0), shifted
\* by (origin_x, origin_y); the centre node is at (origin_x, origin_y).
C25_OriginShiftsNodes ==
    RadialConstructed
      => /\ Len(node_x) = Len(NodesAroundZero)
         /\ \A k \in DOMAIN node_x :
               /\ node_x[k] = NodesAroundZero[k][1] + Scaled(radial_args.origin_x)
               /\ node_y[k] = NodesAroundZero[k][2] + Scaled(radial_args.origin_y)
         /\ \E k \in DOMAIN node_x :
               /\ node_x[k] = Scaled(radial_args.origin_x)
               /\ node_y[k] = Scaled(radial_args.origin_y)

-----------------------------------------------------------------------------
(* The points of the grid and of its diagrams: _initialize, lines 178-225,
   and the assertion of a patch build, lines 655-657.  The back end keeps
   the points it is given (Voronoi(pts).points and Delaunay(pts).points
   are the input points). *)

PointsInit ==
    /\ CtorInit
    /\ radial_args = NoRadial
    /\ vor_points = <<>>
    /\ tri_assert = "none"

\* lines 224-225: vor = Voronoi(pts); self.vor = vor, with the local pts
\* whose columns x and y are
ConstructVoronoi ==
    /\ ctor_pc = "constructed"
    /\ tri_assert = "none"
    /\ vor_points' = MakePts(node_x, node_y)
    /\ tri_assert' = "vor"
    /\ UNCHANGED <<radial_args, ctorVars, attrVars, nodeVars>>

\* lines 655-657 in a call create_patches_from_delaunay_diagram(self.pts,
\* self.vor, nodata) (lines 307-313): tri = Delaunay(pts);
\* assert numpy.array_equal(tri.points, vor.points)
PatchBuildAssert ==
    /\ tri_assert \in {"vor", "holds"}
    /\ LET tri_points == pts
       IN  tri_assert' = IF tri_points = vor_points THEN "holds" ELSE "fails"
    /\ UNCHANGED <<radial_args, vor_points, ctorVars, attrVars, nodeVars>>

InitPoints == PointsInit /\ LinksOff /\ ReoOff /\ CellsOff /\ PatchesOff /\ OpsOff /\ LenOff

NextPoints ==
    \/ InitializeSizeError /\ UNCHANGED <<opVars, lenVars, geomVars, linkVars, reoVars, cellVars, statusVars, meshVars, patchVars>>
    \/ InitializeNodes /\ UNCHANGED <<opVars, lenVars, geomVars, linkVars, reoVars, cellVars, statusVars, meshVars, patchVars>>
    \/ ConstructVoronoi /\ UNCHANGED <<opVars, lenVars, linkVars, reoVars, cellVars, statusVars, meshVars, patchVars>>
    \/ PatchBuildAssert /\ UNCHANGED <<opVars, lenVars, linkVars, reoVars, cellVars, statusVars, meshVars, patchVars>>

SpecPoints == InitPoints /\ [][NextPoints]_vars

-----------------------------------------------------------------------------
(* Claims about the points *)

\* point p is not after point q in the order by y, then x
NotAfter(p, q) == p[2] < q[2] \/ (p[2] = q[2] /\ p[1] <= q[1])

\* C28: once the grid is constructed, node_x / node_y, self.pts and the
\* points of the Voronoi diagram list the same points in the same sorted
\* order (the points given, by y then x), and the assertion of a patch
\* build that the triangulation's points equal the diagram's never fails.
C28_OnePointOrder ==
    /\ tri_assert # "fails"
    /\ tri_assert # "none"
         => /\ ctor_pc = "constructed"
            /\ MakePts(node_x, node_y) = pts
            /\ vor_points = pts
            /\ Len(pts) = Len(in_x)
            /\ \A i, j \in DOMAIN pts : i < j => NotAfter(pts[i], pts[j])
            /\ \A p \in Range(pts) \cup Range(MakePts(in_x, in_y)) :
                  Cardinality({k \in DOMAIN pts : pts[k] = p})
                    = Cardinality({k \in DOMAIN in_x : <<in_x[k], in_y[k]>> = p})

\* a patch build has passed its assertion on a grid whose points were
\* given in another order than the sorted one
C28_Witness ==
    /\ tri_assert = "holds"
    /\ Len(pts) >= 2
    /\ MakePts(in_x, in_y) # pts
    /\ vor_points = pts

-----------------------------------------------------------------------------
(* Patches on lattices.  The four points of a lattice square lie on one
   circle: the Voronoi diagram has one vertex per square, and the
   triangulation splits each square along either diagonal. *)

\* the 2 x 3 lattice (nodes 0 1 2 / 3 4 5), split along 0-4 and 1-5, and
\* along 1-3 and 1-5
Lattice23Regions == << <<>>, <<-1, 0>>, <<-1, 0, 1>>, <<-1, 1>>, <<0, -1>>, <<1, 0, -1>>, <<1, -1>> >>

MeshL23a == [simplices |-> << <<0, 1, 4>>, <<0, 4, 3>>, <<1, 2, 5>>, <<1, 5, 4>> >>,
             regions   |-> Lattice23Regions,
             nnodes    |-> 6,
             interior  |-> {}]

MeshL23b == [simplices |-> << <<0, 1, 3>>, <<1, 4, 3>>, <<1, 2, 5>>, <<1, 5, 4>> >>,
             regions   |-> Lattice23Regions,
             nnodes    |-> 6,
             interior  |-> {}]

\* the 3 x 3 lattice (nodes 0 1 2 / 3 4 5 / 6 7 8), with every square
\* split along the diagonal through the centre node 4, and with every
\* square split along the other diagonal
Lattice33Regions ==
    << <<>>, <<-1, 0>>, <<-1, 0, 1>>, <<-1, 1>>, <<-1, 0, 2>>, <<0, 1, 3, 2>>,
       <<-1, 1, 3>>, <<-1, 2>>, <<-1, 2, 3>>, <<-1, 3>> >>

MeshL33a == [simplices |-> << <<0, 1, 4>>, <<0, 4, 3>>, <<1, 2, 4>>, <<2, 5, 4>>,
                              <<3, 4, 6>>, <<4, 7, 6>>, <<4, 5, 8>>, <<4, 8, 7>> >>,
             regions   |-> Lattice33Regions,
             nnodes    |-> 9,
             interior  |-> {4}]

MeshL33b == [simplices |-> << <<0, 1, 3>>, <<1, 4, 3>>, <<1, 2, 5>>, <<1, 5, 4>>,
                              <<3, 4, 7>>, <<3, 7, 6>>, <<4, 5, 7>>, <<5, 8, 7>> >>,
             regions   |-> Lattice33Regions,
             nnodes    |-> 9,
             interior  |-> {4}]

LatticeMeshes == {MeshL23a, MeshL23b, MeshL33a, MeshL33b}

\* the sets of nodes the caller has closed before the first patch query
LatticeClosedChoices == {{}, {0}, {1}, {4}}

LatticePatchesInit ==
    /\ \E m \in LatticeMeshes :
          /\ tri_simplices = m.simplices
          /\ vor_regions = m.regions
          /\ \E closed \in LatticeClosedChoices :
                node_status = [k \in 1..m.nnodes |->
                                  IF k - 1 \in closed THEN CLOSED_BOUNDARY
                                  ELSE IF k - 1 \in m.interior THEN CORE_NODE
                                  ELSE FIXED_VALUE_BOUNDARY]
    /\ nan_fill_raises \in BOOLEAN
    /\ attrs = ConstructedAttrs
    /\ self_patches_at_node = <<>>
    /\ self_nodes_at_patch = <<>>
    /\ self_number_of_patches = 0
    /\ call = NoCall
    /\ ret = <<>>
    /\ prev_call = NoCall
    /\ prev_ret = <<>>

InitLatticePatches ==
    LatticePatchesInit /\ CtorDone /\ node_x = <<>> /\ node_y = <<>>
      /\ LinksOff /\ ReoOff /\ CellsOffNoStatus /\ OpsOff /\ LenOff /\ GeomOff

SpecLatticePatches == InitLatticePatches /\ [][NextPatches]_vars

-----------------------------------------------------------------------------
(* Claims about the width of the patch table *)

\* C27: in every patch build the number of patches containing a node that
\* is not closed is at most the table width, the largest Voronoi region
\* size, so that the build does not fail on a row assignment and every
\* patch id of the node is in its row.
C27_TableWideEnough ==
    (call.built /\ call.nodata = "minus_one")
      => /\ \A i \in 0..(NumberOfNodes - 1) :
               ~IsClosed(i) =>
                   Len(PatchesWithNode(tri_simplices, i)) <= MaxDimension(vor_regions)
         /\ call.outcome = "ok"
         /\ \A i \in 0..(NumberOfNodes - 1) :
               ~IsClosed(i) =>
                   \A q \in Range(PatchesWithNode(tri_simplices, i)) :
                       q \in Range(self_patches_at_node[i + 1])

=============================================================================
